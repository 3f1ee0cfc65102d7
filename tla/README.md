# Verification of jacques

jacques runs KQL or SQL against a named connection, keeps every answer in a
DuckDB file, and shows it as text, as JSON, in a terminal table or in a web
page. This directory models the parts of it that keep state, checks them with
TLC on small instances, and proves the central results with TLAPS for all
instances. Line numbers are those of the repository's source.

    tlc -config duck_cli.cfg MCDuckCache      # section 3 lists the configurations
    tlapm DuckCacheProofs.tla

## 1. Inventory

| Component | State | Operations | Interacts with |
|---|---|---|---|
| DuckDB cache (`cache/duckdb.go`) | one file: table `cache_meta`, a table per entry; DuckDB's file lock | `NewDuckCache`, `Get` (+ `accessed_at` goroutine), `Put`, `List`, `Clear`, `QueryCache` | every command, every server request, in any number of processes |
| Query flow (`main.go`) | one run: resolved connection, token, answer | load, resolve, look up, token, backend, put, show | config, cache, auth, backends, renderers |
| Config file (`config/config.go`, `main.go:450-654`) | `~/.jacques/config.hcl` | `Load`, `config init/use/set/list`, edits of its lines | every command, the server at start |
| Web server (`server/server.go`) | configuration read once; a `mu` nobody locks | `handleQuery`, `handleConnections` | cache, auth, backends; many requests at once |
| Terminal table (`render/tui.go`) | cursor, scroll offsets, expanded column, search, size | one handler per key, search prompt, resize, `filterColumns` | the row store; the preview hook |
| Auth (`auth/auth.go`) | none of its own | `GetToken`, selector, namespace | `msauth` (external) |
| Backends (`backend/*`, `kusto/client.go`) | one client or database handle | constructor, `Query` | Kusto over HTTP, DuckDB, a CSV file |
| File cache (`cache/cache.go`) | a gzip file per key | `Get`, `Put`, `Clear`, `List` | nobody: it is not called |
| Output (`render/table.go`, `log.go`, `json.go`, `spinner.go`) | the spinner's goroutine | formatting | the terminal |
| Preview (`harness/nvim.go`) | a Neovim buffer | `Preview` | the table's Enter key |
| Web page (`webui/static/app.js`) | rows, cursor, search, detail panel, history, request in flight | key handlers, `runQuery` | the server |

What is hard here:

* **Concurrency without locks.** Processes share two files. The cache file has
  DuckDB's open mode as its only exclusion; the config file has none. Inside
  the server, requests and the `accessed_at` goroutines run side by side and
  do not exclude each other.
* **Many small transactions.** A `Put` is a DROP, a DELETE, a CREATE, one INSERT
  per 1000 rows and an INSERT of the row that makes the entry visible, each on
  its own, half of them with ignored errors. A crash can fall between any two.
* **Stale keys.** The cache is keyed by the connection's *name*; where the
  answer came from depends on flags, environment and a file that changes.
* **Index arithmetic.** The table view indexes with seven variables that
  different keys change, against sizes that a resize or `-cols` changes.
* **A page that stays usable.** The browser's keys change cursor, panel, search
  and focus while a query is in flight, and the answer replaces what they are
  about.
* **Values that change type.** A number goes through JSON, `float64`, `int64`,
  text and VARCHAR before it is shown, by ways that depend on backend, format
  and on whether it comes from the cache.

What makes each part correct: a cache hit is a complete answer to that query by
that connection; a request always ends; a config edit changes what it names,
and nothing is lost when two meet; the cursor is always on a cell that exists
and is shown; Enter, Esc and `n` act on what the screen shows.

`PROJECT.json` lists each hazard at its line with the properties that cover it.

## 2. Modules

| Module | Models |
|---|---|
| `ResultCache` | the abstract cache: a map from keys to complete results that changes in single steps; an entry may vanish |
| `DuckCache` | `cache/duckdb.go` as `main.go` and `server.go` call it, statement by statement |
| `Tui` | `render/tui.go`: the model, its key handlers and what the view indexes |
| `ConfigText` | the lines of the config file: decoding, look-up, and the two line editors |
| `ConfigFile` | `config init/use/set` as system calls on the file |
| `QueryFlow` | commands and server requests from configuration to answer; extends `ConfigFile` and uses `ResultCache` as its cache |
| `Command` | one process from start to exit: its token (`auth/auth.go`), its spinner (`render/spinner.go`), its lines of output (`main.go`) |
| `WebPage` | `webui/static/app.js` with the answers of `server.go` |
| `FileCache` | `cache/cache.go`, the gzip file per key that no command calls any more |
| `Cells` | one column from a backend (`csv.go`, `kusto/client.go`, `backend/duckdb`) to the screen (`table.go`, `log.go`, `json.go`), directly and through the cache |
| `DuckCacheProofs`, `TuiProofs`, `ConfigProofs`, `QueryFlowProofs`, `CommandProofs`, `WebPageProofs`, `FileCacheProofs`, `CellsProofs` | theorems about the module each is named after; `ConfigProofs` is about `ConfigText` and `ConfigFile` |
| `MC*` | small instances |

Operators marked "Wrong" in a module are variants with a plausible bug (a
dropped guard, a forgotten write, an off-by-one). Replacing the operator they
are named after makes TLC report the property that section 3 pairs them with;
this is how we know that each property depends on the code.

### DuckCache

`table` and `meta` are the file: for each key the data table (its width and the
INSERTs applied to it) and the result its `cache_meta` row describes. A worker
is a goroutine that serves a request: the only one of a command, or one of
several of a server. `pc` names the next SQL statement; the open mode a worker
holds follows from its `pc` (`HoldsRead`, `HoldsWrite`), as `defer db.Close()`
makes it. One action is one statement:

| Code | Actions |
|---|---|
| `NewDuckCache` | `Launch` (open or give up), `InitSchema` |
| `Get` | `GetOpen`, `GetMeta`, `GetScan` / `GetScanCut` / `GetScanFail`, `GetReturn` |
| goroutine at line 123 | `TouchOpen`, `TouchUpdate` |
| miss: token, backend, query | `Fetch`, `FetchFail` |
| `Put` | `PutOpen`, `PutDrop`, `PutDelete`, `PutCreate(Fail)`, `PutInsert(Fail)`, `PutRecord` |
| `Clear` | `ClearOpen`, `ClearNames`, `ClearDrop`, `ClearPurge` |
| `List`, `QueryCache` | `ReadOpen`, `ReadRows` |
| end of `main`, a kill | `Exit`, `Crash` |

`Faults` chooses which statements may fail and whether processes crash:
the CREATE of the schema, after which the process goes on without a cache
(`schema`); the SELECT of a row, which is then a miss (`select`); reading a table
or the names of all tables (`scan`); and each statement of `Put` and `Clear`. A
statement also fails when another goroutine of the same process writes at that
time (`Conflict`), which is DuckDB's rule for transactions that meet. The
driver opens the file in `sql.Open`, so a lock that is taken is an error at the
open and never a wait. A result is abstracted to its width and its INSERTs; what
becomes of the values is the subject of `Cells`. A slot starts
at most one `accessed_at` goroutine at a time. `stale` is a history variable: the
last DELETE of a key's row failed, and nothing has replaced the row since. It marks
the rows that a `Put` did not manage to take back before it touched their table.

### Tui

Each key of `handleTableKey` is an action that ends in `MoveTo`, which applies
`clampScroll` as the code does after every key. Text is reduced to what decides
control: a column's natural width, a cell's length, the number of lines of its
pretty-printed JSON, and which cells a search text hits. The loop of
`clampScroll` is replaced by its closed form (`ClampRow`): the smallest offset
from which the cursor's row, with its height, fits. The list of matches is a
set in reading order, with the current match in place of its index, so
`n` from a match that is no longer in the list goes to the nearest one in
either direction, which includes what the code's index can reach. `shown` is
the source column behind each displayed one. `ended = "panic"` stands for an
index out of range.

Terminals have any size, down to one line. With fewer than three, `viewRows` is
negative, a page or half a page is a step the other way, and `Down`'s guard does not
apply to it: the cursor leaves the table. `paged` is a history variable that says
such a key has been pressed; `Far` bounds how far outside the table page keys are
followed.

### ConfigText and ConfigFile

A line is the record of what the line editors look at: labels, braces, the
attribute it assigns. `Load` decodes lines as HCL does; an empty text is a valid
configuration with no connections, which is why a reader that meets a truncated
file sees no error. `ConfigFile` splits a command at its system calls: stat or
load, read, truncate, write (`os.WriteFile` is the last two). The write starts at the
beginning of the file and cuts nothing off: where two commands have both truncated
it and both write, the end of a longer text stays behind a shorter one (`Left`). It may
begin in the middle of a line, and the whole may not parse (`Parses`, `Fragment`);
`Load` of a text that does not is `NoConfig`, as for the commands, which go on without a
configuration after the error. Three history variables: `mixed` says that a command has
left such an end behind its text; `settled` is the contents when a command last
finished writing; and `alone` says that the command at work found them whole and has
had no other beside it. `Onward` bounds the model: it says whether commands other than
`config init` still edit a file that is mixed. `Kill` allows a
kill between two calls. The empty string is the value `Empty`, spelled `"(empty)"`:
it stands for itself and for an attribute that is not there, which Go's decoder does
not tell apart. Not modelled: comments, values with braces in them, the attributes of
`display`.

### QueryFlow

An answer is represented by its origin: type of backend with cluster and
database, or with path. `Run` is the part of `main` up to the cache look-up;
`Handle` that of `handleQuery`. `Resolve` is `resolveConnection`; the server
does not use it. Cache operations are those of `ResultCache`, which `DuckCache`
implements for commands (section 4); a look-up may also miss and a `Put` may be
dropped at any time, as a busy file makes them. A CSV query text that names a
file replaces the connection's path in the code; query texts here do not.

### Command

One action is one step of `main` that prints, waits or decides. `token` is
`resolved.Token`; `tokens` is msauth's cache, which all processes share, keyed
as `GetToken` asks for it (`Key`): by the namespace of `AZURE_CONFIG_DIR`
(`Namespace`), the connection's tenant and the scope (`Selector`). The variable comes
from the shell or, where that is unset, from `.env` (`Effective`). `Absolute` is what
`filepath.Abs` and `Clean` make of its value (`Path`), and the namespace follows from
that; which login a path leads to is another matter (`LoginAt`), for a link or the
spelled-out default directory give a second path to one login. `Shell` says in which
directory each shell runs and what its variable may hold. msauth is external: it
returns a stored token of that key (`AcquireStored`), a new one, or fails. A new one
(`AcquireNew`, `Fetched`) is of the broker's account where there is a broker, which
msauth tries first, and of the login of the directory otherwise. The spinner is a goroutine with the states running, told to stop, gone;
`Tick` may still draw after it has been told, because `select` chooses among the
ready cases. `garbled` is a history variable: a line was printed while a frame was
on the screen or could come back. Which answer is shown is left to `QueryFlow`.

### WebPage

One action per key, click and message. A key goes to the element with the focus
(`focus`), and only `#grid-container` listens. `inflight` holds the requests on
their way with the server's reply; `Deliver` is `runQuery` after its second
`await`. An answer is represented by where it comes from, with a size
(`Rows`, `Cols`) and, for each search text, the cells it hits (`Hits`; row -1 is a
column name, `\j` in a search). `drawn` is what header and body were last
rendered from, `newest` and `asked` are history variables. With `"storage"` in
`Faults`, `localStorage.setItem` may throw. Left out: widths and scrolling, the
clipboard, the status line, the syntax of a search text (`parseSearchQuery`).

### FileCache

Files and names are apart: `os.Remove` takes a name away from an open file,
`os.Create` truncates the file a name has, under whoever reads or writes it. What a
`Put` writes is an entry, its result with the time (`cache.go:100`), so two entries
are never the same bytes; `Fresh` picks one of which nothing is left anywhere. An entry
is cut into the pieces in which gzip writes and reads it. `Get` and `List` decode until
the value is complete (they never reach gzip's checksum); pieces of two entries one
after the other may still decode. `Crash` and `PutFail` leave whatever has been
written; with `"io"` in `Faults` every other call may fail too (`PutRefused`, `ReadDir`).
Two history variables: `mixed` are the files that two `Put`s had open at once, and
`alone` says of each process that no `Put` has opened the file it reads since it did and
that the file was not mixed then.

### Cells

A value is a Go type and a text; a text is what it says and how it is written, so
that equal texts are equal strings: an integer is spelled in plain digits (`Field`) or
with zeros or a plus sign before them (`Padded`), which `ParseInt` accepts as well. DuckDB's
types are those `mapDuckDBType` tells apart, with the Go value the driver gives for each
(`*big.Int` for HUGEINT, `float32` for FLOAT). `FormatValue`, `ToString`, `FormatTime`,
`AllColumns` and `JsonText` are the renderers; `InferRow`/`CsvDone`, `KustoDone` and
`DuckDone` the backends; `StoreCell` is what `Put` and `Get` do to a cell. `Nearest`
is the rounding of an integer to `float64`, `Int64` the conversion back, with the
processor's answer where it overflows. Numbers are scaled down and keep their
order: an exponent from 8 (10^6 in Go), exact floats up to 16 (2^53), words up to
64 (2^63).

## 3. Runs

Passing runs:

| Run | Instance | Properties (variant that breaks each) |
|---|---|---|
| `duck_cli` | 2 commands, 2 keys, 2 results of different width, all faults but delete and scan | `TypeOK` (ClearNamesOtherColumn), `HitMatchesEntry` (PutCreateIfNotExists), `CommandInv` (PutDeleteForgotten), `SnapshotStable` (CanOpenRWBesideReaders), `RefreshReplaces` (PutDeleteForgotten), `Refines` (GetScanFailEmpty) |
| `duck_quiet` | 2 commands, no faults, one result without columns | `NoOrphans` (PutRecordForgotten), `ClearWipes` (ClearDropForgotten) |
| `duck_live` | 1 command and a server with 1 request slot, one key and result, every fault there is | `VisibleIsWhole` (PutCreateIfNotExists), `EveryRequestEnds` (PutOpenWaits), `WriteLockReleased` (InitSchemaLeaks) |
| `tui_grid` | 4 rows, 4 columns of different widths, two `-cols` values, terminals of 1, 4 and 7 lines, 3 searches | `TypeOK` (LeftUnguarded), `NoPanic` (UpUnguarded), `CursorInGrid` (LastColPast), `MatchIsCurrent` (RunSearchKeepsIndex), `KeyShowsCursorRow` (ClampRowShort), `KeyShowsCursorCol` (ClampColShort) |
| `config_edit` | 2 editors, kills, 2 texts or no file | `ConnectionsKept` (WriteFileAppends), `SetTouchesOnlyNamed` (ReplaceFieldNoEnd), `EditTakesEffect` (LoadForUseUnchecked), `NoLostUpdate` (StatIgnored) |
| `query_plain` | 1 command, 1 server slot, an editor that changes a token provider; two kusto databases, or a csv and a duckdb file without a default, and an unknown name; a database in the environment, which every kusto connection overrides | `FlowTypeOK` (HandleUnchecked), `AnswerFromTarget` (KeyOfQuery), `CacheMatchesConfig` (ResolveEnvFirst) |
| `command` | 2 shells in 2 directories, one of which spells its Azure directory in two ways; credentials of the broker and of the Azure CLI; 4 connections of 2 tenants, with 3 forms of one scope | `OwnLogin` (NamespaceEarly), `OneEntryPerPath` (NamespaceRaw), `CleanOutput` (StoppedAtOnce), `EveryCommandEnds` (EraseBreak) |
| `web_page` | 2 connections with answers of different size, 3 searches, a history of 1 | `TypeOK` (PushUncut), `CursorInGrid` (KeepCursor), `MatchesCurrent` (KeepSearch), `PanelOfResult` (KeepPanel), `NewestShown` (RunUnguarded), `EveryRunEnds` (DeliverErrorStuck) |
| `file_cache` | 2 writers that also clear, 1 reader, 2 keys, one entry of one piece and two of two, 3 files, crashes, a full disk and failing calls | `TypeOK` (ListSkipLeaks), `HitIsResult` (CutNothing), `ListedIsWhole` (ListEntryUnchecked) |
| `cells` | columns of up to 3 fields, answers of up to 2 frames, 10 integers at the boundaries | `ColumnIsUniform` (InferRowLast), `DigitsKept` (FormatValueReal), `PrimaryShown` (ChosenByRows) |

What each of them leaves out, because it is not so there:

* `VisibleIsWhole` is not said of a row whose own DELETE failed (`duckdb.go:148`), and
  `duck_live` has one request at a time in its server. Everything else may fail or be
  killed: a CREATE, an INSERT in the middle, the last INSERT.
* `NoPanic` and `CursorInGrid` are about what happens before a page key is pressed in a
  terminal of fewer than three lines; `KeyShowsCursorCol` leaves out a key that scrolls
  right past columns narrower than one that follows. The terminals and columns are there
  in `tui_grid`, and the unconditional forms fail in it (`NoPanicAtAnySize`,
  `EveryKeyShowsCursorCol`).
* `ConnectionsKept` and `SetTouchesOnlyNamed`, like `AnswerFromTarget` and
  `CacheMatchesConfig`, are about what happens until a command has written over a longer
  text (`~ mixed`). `config_edit` reaches such files and edits them again with `config
  init`; `ConnectionsAlwaysKept` fails there.
* `HitIsResult` and `ListedIsWhole` are about files that no `Put` opened under the reader
  and no two `Put`s had open at once. `file_cache` reaches the others, and
  `EveryHitIsResult` fails there.
* `OwnLogin` says whose login a token of the Azure CLI is; a token of the broker is its
  account's. `OneEntryPerPath` is about one path; of one login, to which several paths
  lead, `OneEntryPerLogin` fails.
* `DigitsKept` is about the number. The spelling of a CSV field may change, `007` to `7`:
  `SpellingKept` fails with the constants of `cells`.

Runs that find the code at odds with what the repository says of it (details,
lines and quotes are under "findings" in `PROJECT.json`):

| Run | Property | What TLC finds |
|---|---|---|
| `duck_two_puts` | `HitIsWhole` | two server requests for one query fill one table; a hit is a part of the result |
| `cells_cached` | `HitShowsTheSame` | a hit shows other text than the query did: `<nil>`, exponents, unformatted times, quoted numbers in JSON |

Further configurations, not among the regular runs, each isolate one cause of
a counterexample. They justify the assumptions of the passing runs and of the
theorems: each drops one of them, and the property fails. "With" names a
configuration whose constants serve; put the property in place of its own.

| Configuration | Property | What TLC finds |
|---|---|---|
| `duck_stale_row` | `HitIsWhole` | a DELETE whose error is ignored (`cache/duckdb.go:148`), then a crash: the old row vouches for half a table |
| `duck_touch_delete` | `HitIsWhole` | the same, with the DELETE failing because of a previous hit's goroutine (line 123) |
| `duck_scan_error` | `HitIsWhole` | a read error ends a hit early: `rowsToStore` does not ask `rows.Err` (line 289) |
| `duck_clear` | `ClearWipes` | a table orphaned by a crash survives `cache clear` (line 237) |
| `duck_refresh` | `RefreshOverwrites` | `-refresh` prints a new result and leaves the old one cached when the file is refused (`main.go:222`) |
| with `duck_refresh` | `LockedOutByWriters` | a command that starts while another *reads* runs without a cache (line 28) |
| `tui_empty` | `NoPanic` | `G` on an empty result panics (`tui.go:247`) |
| `tui_cols_flag` | `NoPanic` | a misspelt `-cols` name panics (`tui.go:838`) |
| `tui_preview` | `PreviewShowsCell` | with `-cols`, Enter previews another column (`tui.go:286`) |
| `tui_collapsed` | `StartsCollapsed` | the first column starts expanded (`tui.go:44-56`, 121) |
| with `tui_grid` | `EveryKeyShowsCursorCol` | `$` with columns of different widths leaves the cursor off the screen (`tui.go:455`) |
| with `tui_grid` | `NoPanicAtAnySize` | PgDown in a terminal of one line moves the cursor to row -2, and a row below 0 is indexed when there is room for one again (`tui.go:252-255`, 137) |
| with `tui_grid` | `EscapeClearsFirst` | Esc quits while matches are still there (`tui.go:226`) |
| `config_emptied` | `NeverEmptied` | a config command that reads while another writes empties the file (`main.go:564`) |
| with `config_emptied` | `NeverLosesUpdate` | two commands at a time: one setting is lost (`main.go:558`) |
| with `config_edit` | `NeverEmptied` | a kill between truncation and write leaves an empty file (`main.go:593`) |
| with `config_edit` | `NeverLosesUpdate` | the same from any two of `init`, `use` and `set`, also where there is no file yet (`config.go:99-108`) |
| with `config_edit` | `ConnectionsAlwaysKept` | two commands truncate, then both write: the longer text's end stays behind the shorter one (`main.go:564`) |
| `config_one_line`, `config_type_label` | `SetTouchesOnlyNamed` | `config set` edits connections it was not given (`main.go:614`) |
| `config_absent` | `AlwaysTakesEffect` | `config set` reports success and changes nothing (`main.go:568`) |
| `query_flags` | `AnswerFromTarget` | a run with `-db` is answered with what a run without it stored (`duckdb.go:79`) |
| `query_env` | `AnswerFromTarget` | server and command share an entry for different databases (`server.go:136`) |
| `query_set` | `CacheMatchesConfig` | after `config set` the cache still answers with the old database |
| with `query_set` | `ResolvesConfigured` | a query that starts while the config is written finds no connections (`config.go:60`) |
| `command_broker` | `IdentityIsAzLogin` | with a broker a query runs under its account; README 255-256 says the identity is the current `az login` (`auth.go:90`) |
| `command_default` | `OneEntryPerLogin` | a variable that spells out the default directory, or leads through a link, gets an entry of its own: paths are compared as they are written (`auth.go:151-153`, 166-169) |
| `web_storage` | `DrawnIsResult` | an exception of `localStorage` leaves the old rows on the screen and the keys on the new ones (`app.js:403`) |
| with `web_page` | `EnterSearches` | Enter typed in the search box reaches no listener (`app.js:21, 270`) |
| with `web_page` | `PanelAtCursor` | `G`, `$`, `n` and the page keys move the cursor and leave the panel (`app.js:218-225`) |
| with `web_page` | `MarksAreMatches` | Escape clears the matches and leaves the header's marks (`app.js:229`) |
| with `file_cache` | `EveryHitIsResult` | a reader of an entry that is being overwritten by another one decodes a mixture (`cache.go:87`) |
| with `cells` | `FailureIsError` | an error in the completion frame is not looked at (`client.go:161`) |
| with `cells` | `SpellingKept` | an integer that a CSV file spells `007` or `+5` is shown as `7` or `5` (`csv.go:95`, 117) |
| with `cells` | `JsonPrints` | a NaN makes `-f json` print nothing (`json.go:32`) |

**Bounds and why they are enough.** The cache's hazards are about two parties
at one key, so two workers and one or two keys show them; a second key is there
for `Clear`, which works on all. Results differ in width and in the number of
INSERTs (none, one, two): two INSERTs are what it takes to see one of two, and
different widths what it takes to see rows of one result refused by the table of
another. `duck_live` has one key and one result because a half-filled table of it is
already a part of a result, and every fault there is. `duck_cli`, which has no
liveness property, takes its keys as symmetric. In the table,
heights 1, 4 and 7 give no data line (`viewRows` is -2), one and four for four rows, and
the widths 26 and 60 show some of the columns, and all of them; wider or
taller terminals only scroll less. `Far` is 4: outside the table page keys are followed
until the cursor is that far from it (`PageTo`), which is enough to come back from either
side. Config texts have two connections because an
edit has a named one and another; `Onward` is FALSE in every configuration, for a file
with the end of another text behind it is beyond what the properties say, and editing it
makes ever longer ones. In `QueryFlow` two connections of the same
type and others of other types are the least that can be confused. On the page
one query text and two connections give two answers of different size, which is
what a cursor, panel or match of the old rows needs to be wrong in the new ones;
one history entry is at the bound from the first answer on. Two pieces are what
it takes to see a part of a file, two keys a file of the other one, two writers one
that truncates under the other; two long entries are two answers of one query, of which
`Fresh` takes one that is nowhere any more; three files leave one without a name for
an open descriptor. Two shells, one of which means another directory's login by its
variable, are what it takes to be given a token of the other one; two tenants and three
spellings of a scope are the least that the key may and may not tell apart. A column of three fields has one to change what inference knew and
one more after it; two frames are the least that can come in the wrong order.

**Deadlock** is checked except for `Tui`, where `q` ends the program, and
`Cells`, where a column ends up on the screen.

**Sizes.** Distinct states: `tui_grid` 337,536, `query_plain` 150,841, `config_edit`
641,343, `command` 257,760, `file_cache` 350,768, `cells` 177,543; each run takes
less than five minutes with two workers.

**Fairness.** `DuckCache!Fairness` is weak fairness of each worker's steps, of
each `accessed_at` goroutine and of `InitSchema`. Go schedules every runnable
goroutine, a DuckDB statement on a local file returns, and a query ends with the
client's five-minute timeout (`kusto/client.go:30`) at the latest. Nobody has to
start jacques, issue a request, crash or quit, so no fairness is assumed of
`Launch`, `Begin`, `Crash` or `Exit`. Weak fairness suffices because no step of a
request waits for a lock. `Command!Fairness` is that of the main goroutine and of
`Erase`: the ticker fires every 80 ms, so the closed channel is the only ready case
most of the time, and no fairness of `Tick` is needed. The main goroutine's fairness also
stands for three things outside the code: that the user leaves `-format tui` by `q`, that
msauth returns, and that a query does (a CSV file is local; Kusto has the client's
timeout; DuckDB has none). What `EveryCommandEnds` tests is the handshake between `Stop`
and the spinner's goroutine. `WebPage!Fairness` is that
the server replies (`handleQuery` writes an answer on every path, and recovers from
a panic) and that `fetch` ends; nobody has to press a key.

## 4. Proofs

The eight modules hold no unproved step and assume only the named `ASSUME`s of
the modules, which the runs evaluate, and the conditions named here. Each condition
is one that the constants of a passing run satisfy and that those of a configuration
in section 3 do not, with the property refuted there. What the properties themselves
leave out (`stale`, `paged`, `mixed`, `alone`) is listed in section 3.

| Theorem | States | Condition | Without it |
|---|---|---|---|
| `DuckCacheProofs!TypeCorrect` | `TypeOK` | | |
| `OneWriter` | `WriterAlone` | | |
| `CommandInvariant`, `CommandHits`, `CommandSnapshot`, `CommandRefresh`, `CommandRefines` | `CommandInv`, `HitMatchesEntry`, `SnapshotStable`, `RefreshReplaces`, `Refines` | `CommandsOnly`: no server, DELETE and the reading of a table do not fail | `duck_two_puts`, `duck_stale_row`, `duck_scan_error` |
| `EntriesAreWhole` | `VisibleIsWhole` | `OneRequestEach`: one request at a time in each server, whatever fails and is killed | `duck_two_puts` |
| `TablesHaveRows`, `ClearIsComplete` | `NoOrphans`, `ClearWipes` | `NothingFails`: `CommandsOnly`, DROP and the INSERTs do not fail and nobody is killed | `duck_clear` |
| `TuiProofs!TableTyped`, `MatchStays`, `RowShown`, `ColumnShown` | `TypeOK`, `MatchIsCurrent`, `KeyShowsCursorRow`, `KeyShowsCursorCol` | | |
| `NeverPanics`, `CursorStays` | `NoPanic`, `CursorInGrid` | `GoodTable`: a row, and `-cols` names `filterColumns` accepts | `tui_empty`, `tui_cols_flag` |
| `ConfigProofs!EditorsTyped`, `ConnectionsStay` | `TypeOK`, `ConnectionsKept` | | |
| `OthersUntouched` | `SetTouchesOnlyNamed` | `AllTidy`: blocks end on a line of their own, and no header has the connection's name as its type | `config_one_line`, `config_type_label` |
| `UpdatesStay`, `EditsTakeEffect` | `NoLostUpdate`, `EditTakesEffect` | also `AllFilled`: one `current_connection` at most, and a connection that is set has the field; for the latter, no empty name in `config use` | `config_absent` |
| `QueryFlowProofs!FlowTypes` | `FlowTypeOK` | | |
| `AnswersFromTheirPlace`, `CacheOfTheConfig` | `AnswerFromTarget`, `CacheMatchesConfig` | `Steady`: no flag, environment or `config set` changes where a configured connection reads, and each says all of it | `query_flags`, `query_env`, `query_set` |
| `CommandProofs!CommandTyped`, `TokenOfOwnLogin`, `EntriesShared`, `OutputIsClean` | `TypeOK`, `OwnLogin`, `OneEntryPerPath`, `CleanOutput` | | |
| `WebPageProofs!PageTyped`, `HistoryNamesResult`, `AnswerOfNewest`, `CursorOnCell`, `PanelIsCurrent`, `MatchesOfResult` | `TypeOK`, `HistoryOfResult`, `NewestShown`, `CursorInGrid`, `PanelOfResult`, `MatchesCurrent` | | |
| `FileCacheProofs!FilesTyped`, `FileHits`, `FileLists` | `TypeOK`, `HitIsResult`, `ListedIsWhole` | | |
| `CellsProofs!ColumnsUniform`, `RowsOfTheQuery`, `DigitsSurvive` | `ColumnIsUniform`, `PrimaryShown`, `DigitsKept` | | |

The arguments:

* **Cache, commands.** `HitMatchesEntry` alone is not inductive: a hit is assembled
  from two reads, so one must know that what the first read saw still holds at the
  second. `CommandInv` adds: a writer has the file alone (`WriterAlone`); the
  `accessed_at` goroutine opens the file only after its command's `Get` has returned
  (`TouchLast`); a row and a table that are both there match (`EntryDescribesTable`);
  between the reads of a `Get` the row is the one it saw (`GetProgress`); and inside a
  `Put` the row is gone and the table is exactly the INSERTs done so far
  (`PutProgress`). `CommandRefines` maps `Visible` (a key's table if its row is there)
  to the abstract store. The steps that are not stutters: `PutRecord` is `Store`;
  `PutDrop`, `PutDelete`, `ClearDrop`, `ClearPurge` are `Evict`; `GetScan` is `Lookup`;
  `Begin`, `Exit`, `Crash` are `Forget`.
* **Cache, servers and Clear.** `WriterAlone` excludes other processes, not other
  goroutines, so it holds for servers too. `WholeInv` says of every table, whether its
  row is there or not, that it is whole, or that its row is gone or its DELETE has failed
  (`stale`); and of a worker inside a `Put`, that its table is exactly the INSERTs done so
  far. That is what makes it immune to failures and kills: a half-filled table never has a
  row that a DELETE could have removed.
  `OrphanInv` adds to `NoOrphans` that what a `Put` dropped stays dropped and that a
  `Clear` still has every table there is on its list.
* **Table.** `PlacesInv` keeps columns, expanded column and matches inside the table, in
  any terminal and for tables without rows, up to the panic; `GridInv` adds the rows, until
  `paged`. `ClampRowOK` is what `clampScroll` does with rows of any height. For columns,
  `UsedIs` unfolds the sum that `visibleColRange` runs up and `FitIs` says which columns
  fit. `NarrowVisible` is the heart: if no column of the stretch the cursor crosses is
  narrower than one after it, at least as many columns fit at the new offset as at the
  old one, which is what the code relies on when it scrolls by the number that fit before.
  `ColMoves` shows that every table key clamps once or twice, and `ClampForward` that the
  second time undoes nothing.
* **Configuration.** The texts are of any length, so `Decoded`, a recursive function of
  the line number, and `Depth` are unfolded once (`DecodedIs`, `DepthIs`), and what is
  said of every line is proved by the least line at which it would fail (`LeastNat`,
  `Climb`). `SameStep` and `Prepend` say what changing values and adding a first line
  does to what HCL decodes; hence no edit changes the labels (`EditKeeps`), and
  `EditorInv` gives `ConnectionsKept` in whatever order editors read, truncate, write and
  die. It says that, until the file is `mixed`, its text and the one each editor has read
  are `Kept`: they have the connections of a first text, or none. A write that leaves
  nothing behind leaves exactly its own text (`Left`, `Written`). That edits also keep
  which texts parse is `AlikeParses` and `PrependParses`. `DepthInSync` is the heart of
  the rest: in a tidy text the brace counter of `replaceFieldInConfig` is 1 exactly where
  HCL is inside the named block. `FieldIs` follows, and `Tidy`, `Single` and `Filled` are kept by every edit (`AlikeTidy`,
  `PrependTidy`). `WorkInv` adds what an editor that works alone knows: the file, or what
  it read, is what was written last.
* **Query flow.** `FlowTyped` carries the types and the names in every configuration a
  reader may hold. `HomeInv(h)` is about one configuration `h` that never changes, where
  the connections were at first: the file, what an editor has read, the server's copy
  and every resolved connection read from the places `h` names, or see no connections,
  as a truncated file has none; and every stored answer is from the place its key names
  in `h`. This is the inductive form of both properties, for it does not mention what
  the file says now. All of it is said until the file is `mixed`.
* **Token and spinner.** `TokenInv`: the path, tenant and scope a token in msauth's cache
  was acquired for are those of its key, whoever stored it, and if the Azure CLI gave it
  its login is that of the path; a process that has a token has one of its own key.
  `EntryInv` adds which forms of a scope occur in a key. `SpinnerInv`
  ties the goroutine's state to the main one's: a frame is on the screen only while the
  goroutine is there, and it is there only between `Construct` and `Stopped`.
* **Web page**, with or without storage faults. `FlightInv`: at most one request is in
  flight, it is the newest, and only while `loading`. `GridInv`: cursor, panel, matches
  and index are of the rows shown. That the i-th match exists for every index is
  `MatchExists`: the number of matches before a match is an injection of the matches into
  the indices.
* **File cache.** `FileInv` is, besides types: every file belongs to one key
  and, unless two `Put`s had it open at once, holds the start of one of that key's
  entries (`FilesInv`); two `Put`s with one file open have mixed it (`ApartInv`); a `Put`
  has written the start of its entry, and an unmixed file holds nothing else
  (`WriterInv`); a reader that is alone has read the start of its file (`ReaderInv`); and
  what an index or an answer was made of (`KeyInv`, `FoundInv`). `WholeOfOne` is why this
  suffices: pieces that start one entry and decode are that entry.
* **Values.** `InferInv` relates the type inferred so far to the fields read so far, for
  columns of any length; `LongCell` follows one integer through `float64`, `int64` and the
  cache's text, with `Ulp` and `Nearest` for any word width. `IntField` is where the spelling
  of a CSV field drops out: `ParseInt` gives the same number for all of them.

Only model-checked: liveness (`EveryRequestEnds`, `WriteLockReleased`,
`EveryCommandEnds`, `EveryRunEnds`), for the prover has no ENABLED, and the two
properties that the code does not have. Every other property of a passing run is a
theorem.

## 5. State of the plan

The order was: the cache first (it is shared by everything and has the
concurrency), then the table (most of the state), the configuration and the query
flow that composes configuration and cache, then the web page, the course of a
command, the file cache and the values. All of it is modelled, and every safety
property of the passing runs is proved. What is left is to find weaker conditions
where the present ones are only sufficient: `NothingFails`, which excludes failures
that leave no table behind, and the tails of `ConfigFile`, after which some properties
could be said again once a command has found the file and rewritten it alone.

### Not modelled

* Layout: column widths and padding of `table.go`, drawing and highlighting of
  `tui.go` and `app.js`, scrolling of the page. Nothing but the eye depends on it.
* The syntax of a search text (`parseSearchQuery`, `tui.go` and `app.js`): `Hits` stands
  for what a text finds.
* `config list`, `cache path`, `version`, usage texts, logging, packaging: they keep no
  state.
* `data/*`: rows are an immutable slice once a query has returned.
* msauth, DuckDB, Neovim, the Azure CLI and the browser: external, modelled by what the
  code sees of them. An error of `.Close` is never looked at by the code and has no
  action.
