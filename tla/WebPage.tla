------------------------------ MODULE WebPage ------------------------------
(***************************************************************************)
(* The web page (src/webui/static/app.js) with the server that answers it  *)
(* (src/server/server.go).  The page stays usable while a query is in      *)
(* flight: the connection, the cursor, the detail panel, the search prompt *)
(* and the focus change before the answer replaces the rows.               *)
(*                                                                         *)
(* A key goes to the element that has the focus, and only #grid-container  *)
(* listens for the keys of the table and of the search prompt.  The status *)
(* line, the clipboard, column widths and scrolling are left out.          *)
(*                                                                         *)
(* Operators marked "Wrong" are variants with a bug; README.md says which  *)
(* property finds each of them.                                            *)
(***************************************************************************)
EXTENDS Integers, Sequences, FiniteSets

CONSTANTS
    Conn,        \* connections the server is configured with
    Default,     \* the one it takes for a name it does not know
    Blank,       \* "": nothing selected in #conn-select
    Query,       \* query texts
    Rows, Cols,  \* size of the answer of each connection to each query
    Text,        \* search texts, with Empty among them
    Empty,
    Hits,        \* what a text hits in an answer: <<row, col>>, or <<-1, col>> for \j
    PageRows,    \* rows that fit into the window
    MaxHistory,  \* 100 in the code
    Faults,      \* "storage": localStorage may be full
    None

Answer == [from : Conn, query : Query]
Request == [conn : Conn \union {Blank}, query : Query]

ASSUME ConnAssumption == Default \in Conn /\ Blank \notin Conn
ASSUME SizeAssumption ==
    /\ Rows \in [Answer -> Nat] /\ Cols \in [Answer -> Nat]
    /\ \A a \in Answer : Rows[a] > 0 => Cols[a] > 0
ASSUME TextAssumption == Empty \in Text
ASSUME HitsAssumption ==
    \A a \in Answer, t \in Text :
      /\ Hits[a][t] \subseteq (-1..(Rows[a] - 1)) \X (0..(Cols[a] - 1))
      /\ Hits[a][Empty] = {}
ASSUME PageAssumption == PageRows \in Nat /\ MaxHistory \in Nat \ {0}
ASSUME WebNoneAssumption ==
    /\ None \notin Answer \union Request
    /\ None \notin [of : Answer, row : Nat, col : Nat]

VARIABLES
    options,    \* connections in #conn-select: all, or none if the list failed
    conn,       \* the one selected
    text,       \* the text in #query-input
    focus,      \* the element that has the focus
    loading,    \* S.loading
    inflight,   \* requests sent, with the server's reply when there is one
    newest,     \* history: the last request sent
    result,     \* the answer in S.columns, S.rows and S.cells
    curRow, curCol,
    panel,      \* the cell the open detail panel shows
    searching, box, searchQuery, matches, searchIdx,
    asked,      \* history: Enter has been typed in the search box
    history, stored,  \* S.history, and what localStorage has
    drawn       \* what header and body were last rendered from

asking == <<options, conn, text, loading, inflight, newest>>
cursor == <<curRow, curCol>>
search == <<searchQuery, matches, searchIdx>>
prompt == <<searching, box, asked>>
past == <<history, stored>>
vars == <<asking, focus, result, cursor, panel, search, prompt, past, drawn>>

NumRows == IF result = None THEN 0 ELSE Rows[result]
NumCols == IF result = None THEN 0 ELSE Cols[result]
Clamp(i, n) == IF n - 1 < i THEN (IF n - 1 < 0 THEN 0 ELSE n - 1)
               ELSE IF i < 0 THEN 0 ELSE i

----------------------------------------------------------------------------
(* Rendering                                                               *)

MarksOf(ms) == {m[2] : m \in {x \in ms : x[1] = -1}}

\* renderAll: the header with its search marks, and the rows.
RenderAll(res, ms) == drawn' = [header |-> res, marks |-> MarksOf(ms), body |-> res]
RenderViewport == drawn' = [drawn EXCEPT !.body = result]

\* Wrong: cursor, panel or matches of the old rows stay.
KeepCursor == UNCHANGED cursor
KeepPanel == UNCHANGED panel
KeepSearch == searchQuery' = Empty /\ UNCHANGED <<matches, searchIdx>>

\* The text left in the box is overwritten when the prompt opens again.
ClosePrompt == searching' = FALSE /\ box' = Empty /\ asked' = FALSE
ResetCursor == curRow' = 0 /\ curCol' = 0
ClosePanel == panel' = None
ResetSearch == searchQuery' = Empty /\ matches' = {} /\ searchIdx' = -1

----------------------------------------------------------------------------
(* Loading the page                                                        *)

\* The list of connections may fail to load; then nothing is selected.
Init ==
    /\ options \in {Conn, {}}
    /\ conn \in IF options = {} THEN {Blank} ELSE options
    /\ text \in Query
    /\ focus = "grid"
    /\ loading = FALSE /\ inflight = {} /\ newest = None
    /\ result = None
    /\ curRow = 0 /\ curCol = 0
    /\ panel = None
    /\ searching = FALSE /\ box = Empty /\ asked = FALSE
    /\ searchQuery = Empty /\ matches = {} /\ searchIdx = -1
    /\ drawn = [header |-> None, body |-> None, marks |-> {}]
    /\ history = <<>> /\ stored = <<>>

\* The page is loaded again: all but localStorage is new, and the answer to a
\* request still in flight has nobody to go to.
Reload ==
    /\ options' \in {Conn, {}}
    /\ conn' \in IF options' = {} THEN {Blank} ELSE options'
    /\ text' \in Query
    /\ focus' = "grid"
    /\ loading' = FALSE /\ inflight' = {} /\ newest' = None
    /\ result' = None
    /\ ResetCursor /\ ClosePanel /\ ResetSearch
    /\ ClosePrompt
    /\ drawn' = [header |-> None, body |-> None, marks |-> {}]
    /\ history' = stored
    /\ UNCHANGED stored

----------------------------------------------------------------------------
(* Asking                                                                  *)

Select(c) ==
    /\ c \in options
    /\ conn' = c
    /\ focus' = "toolbar"
    /\ UNCHANGED <<options, text, loading, inflight, newest, result, cursor,
                   panel, search, prompt, past, drawn>>

Type(q) ==
    /\ focus = "toolbar"
    /\ text' = q
    /\ UNCHANGED <<options, conn, loading, inflight, newest, focus, result, cursor,
                   panel, search, prompt, past, drawn>>

\* A click on an entry of the history.  A connection that is not among the
\* options leaves the selection blank.
PickEntry(i) ==
    /\ i \in 1..Len(history)
    /\ text' = history[i].query
    /\ conn' = IF history[i].conn \in options THEN history[i].conn ELSE Blank
    /\ focus' = "toolbar"
    /\ UNCHANGED <<options, loading, inflight, newest, result, cursor, panel,
                   search, prompt, past, drawn>>

\* Wrong: a second query can be started while one is in flight.
RunUnguarded ==
    /\ loading' = TRUE
    /\ newest' = [conn |-> conn, query |-> text]
    /\ inflight' = inflight \union {[request |-> newest', reply |-> "pending"]}
    /\ focus' = "toolbar"
    /\ UNCHANGED <<options, conn, text, result, cursor, panel, search, prompt, past, drawn>>

\* runQuery up to its first await: the button, or Ctrl+Enter.
Run ==
    /\ ~ loading
    /\ loading' = TRUE
    /\ newest' = [conn |-> conn, query |-> text]
    /\ inflight' = inflight \union {[request |-> newest', reply |-> "pending"]}
    /\ focus' = "toolbar"
    /\ UNCHANGED <<options, conn, text, result, cursor, panel, search, prompt, past, drawn>>

\* handleQuery: an unknown name means the default connection; any error, a
\* panic included, is written as an error.
Served(r) == [from |-> IF r.conn \in Conn THEN r.conn ELSE Default, query |-> r.query]

Serve(m) ==
    /\ m \in inflight
    /\ m.reply = "pending"
    /\ \E reply \in {"answer", "error"} :
         inflight' = (inflight \ {m}) \union {[m EXCEPT !.reply = reply]}
    /\ UNCHANGED <<options, conn, text, loading, newest, focus, result, cursor,
                   panel, search, prompt, past, drawn>>

\* Wrong: an error leaves runQuery before loading is reset.
DeliverErrorStuck(m) ==
    /\ m \in inflight
    /\ m.reply = "error"
    /\ inflight' = inflight \ {m}
    /\ UNCHANGED <<options, conn, text, loading, newest, focus, result, cursor,
                   panel, search, prompt, past, drawn>>

\* data.error, or fetch rejects: the rows stay.
DeliverError(m) ==
    /\ m \in inflight
    /\ m.reply = "error"
    /\ inflight' = inflight \ {m}
    /\ loading' = FALSE
    /\ UNCHANGED <<options, conn, text, newest, focus, result, cursor, panel,
                   search, prompt, past, drawn>>

Entry(r) == [conn |-> r.conn, query |-> r.query, rows |-> Rows[Served(r)]]

\* Wrong: the list is not cut.
PushUncut(e) == <<e>> \o history

\* addHistory: the newest first, MaxHistory at most.
Push(e) ==
    LET longer == <<e>> \o history
    IN  IF Len(longer) > MaxHistory THEN SubSeq(longer, 1, MaxHistory) ELSE longer

\* The answer replaces the rows.  An exception of localStorage.setItem skips
\* what follows it: rendering and the focus.
Deliver(m) ==
    /\ m \in inflight
    /\ m.reply = "answer"
    /\ inflight' = inflight \ {m}
    /\ loading' = FALSE
    /\ result' = Served(m.request)
    /\ ResetCursor /\ ClosePanel /\ ResetSearch
    /\ history' = Push(Entry(m.request))
    /\ \/ stored' = history' /\ focus' = "grid" /\ RenderAll(result', matches')
       \/ "storage" \in Faults /\ UNCHANGED <<stored, focus, drawn>>
    /\ UNCHANGED <<options, conn, text, newest, prompt>>

----------------------------------------------------------------------------
(* Keys of the grid                                                        *)

InGrid == focus = "grid" /\ ~ searching
OnRows == InGrid /\ NumRows > 0

\* hjkl and the arrows, which also refresh an open panel.
Cell == [of |-> result, row |-> curRow, col |-> curCol]
Move(dr, dc) ==
    /\ OnRows
    /\ curRow' = Clamp(curRow + dr, NumRows)
    /\ curCol' = Clamp(curCol + dc, NumCols)
    /\ panel' = IF panel = None THEN None
                ELSE [of |-> result, row |-> curRow', col |-> curCol']
    /\ RenderViewport
    /\ UNCHANGED <<asking, focus, result, search, prompt, past>>

\* g, G, 0, $, ctrl-d, ctrl-u, PageDown and PageUp do not.
JumpTargets ==
    {<<0, curCol>>, <<NumRows - 1, curCol>>, <<curRow, 0>>, <<curRow, NumCols - 1>>}
      \union {<<Clamp(curRow + d, NumRows), curCol>> :
                d \in {PageRows, - PageRows, PageRows \div 2, -(PageRows \div 2)}}
Jump(target) ==
    /\ OnRows
    /\ curRow' = target[1]
    /\ curCol' = target[2]
    /\ RenderViewport
    /\ UNCHANGED <<asking, focus, result, panel, search, prompt, past>>

\* Space and Enter.
ToggleDetail ==
    /\ OnRows
    /\ panel' = IF panel = None THEN Cell ELSE None
    /\ RenderViewport
    /\ UNCHANGED <<asking, focus, result, cursor, search, prompt, past>>

\* Escape closes the panel, or else clears the search; searchIdx stays, and the
\* header is not rendered.
Escape ==
    /\ InGrid
    /\ panel' = None
    /\ IF panel = None /\ searchQuery # Empty
         THEN searchQuery' = Empty /\ matches' = {} /\ UNCHANGED searchIdx
         ELSE UNCHANGED search
    /\ RenderViewport
    /\ UNCHANGED <<asking, focus, result, cursor, prompt, past>>

\* The cross of the panel.
DetailClose ==
    /\ panel # None
    /\ panel' = None
    /\ UNCHANGED <<asking, focus, result, cursor, search, prompt, past, drawn>>

----------------------------------------------------------------------------
(* Search                                                                  *)

OpenSearch ==
    /\ InGrid
    /\ searching' = TRUE
    /\ box' = searchQuery
    /\ asked' = FALSE
    /\ focus' = "search"
    /\ UNCHANGED <<asking, result, cursor, panel, search, past, drawn>>

\* The box is outside #grid-container: Enter in it reaches no listener.
TypeInBox(t) ==
    /\ focus = "search"
    /\ box' = t
    /\ UNCHANGED <<asking, focus, result, cursor, panel, search, searching, asked,
                   past, drawn>>
EnterInBox ==
    /\ focus = "search"
    /\ asked' = TRUE
    /\ UNCHANGED <<asking, focus, result, cursor, panel, search, searching, box,
                   past, drawn>>

\* searchMatches is in reading order; its entry i has i matches before it.
Before(m, n) == m[1] < n[1] \/ (m[1] = n[1] /\ m[2] < n[2])
MatchAt(ms, i) == CHOOSE m \in ms : Cardinality({x \in ms : Before(x, m)}) = i

JumpTo(m) ==
    /\ curRow' = IF m[1] >= 0 THEN m[1] ELSE curRow
    /\ curCol' = m[2]

\* runSearch.
FoundIn(t) == IF result = None THEN {} ELSE Hits[result][t]

\* Enter, in the grid.
RunSearch ==
    /\ focus = "grid" /\ searching
    /\ searchQuery' = box
    /\ matches' = FoundIn(box)
    /\ IF matches' # {}
         THEN searchIdx' = 0 /\ JumpTo(MatchAt(matches', 0))
         ELSE UNCHANGED <<searchIdx, cursor>>
    /\ ClosePrompt
    /\ RenderAll(result, matches')
    /\ UNCHANGED <<asking, focus, result, panel, past>>

\* Escape, in the grid.
CancelSearch ==
    /\ focus = "grid" /\ searching
    /\ ClosePrompt
    /\ UNCHANGED <<asking, focus, result, cursor, panel, search, past, drawn>>

\* n and N.
NextMatch(dir) ==
    /\ OnRows
    /\ matches # {}
    /\ searchIdx' = (searchIdx + dir + Cardinality(matches)) % Cardinality(matches)
    /\ JumpTo(MatchAt(matches, searchIdx'))
    /\ RenderViewport
    /\ UNCHANGED <<asking, focus, result, panel, searchQuery, matches, prompt, past>>

----------------------------------------------------------------------------
\* A click; the search box is on the screen only while it is open.
Focus(el) ==
    /\ el = "search" => searching
    /\ focus' = el
    /\ UNCHANGED <<asking, result, cursor, panel, search, prompt, past, drawn>>

Resize ==
    /\ RenderAll(result, matches)
    /\ UNCHANGED <<asking, focus, result, cursor, panel, search, prompt, past>>

\* Where the focus matters; "toolbar" stands for everything else.
Element == {"grid", "toolbar", "search"}

KeyStep ==
    \/ \E d \in {1, -1} : Move(d, 0) \/ Move(0, d) \/ NextMatch(d)
    \/ \E target \in JumpTargets : Jump(target)
    \/ ToggleDetail \/ Escape \/ OpenSearch \/ RunSearch \/ CancelSearch

Next ==
    \/ Reload \/ Run \/ KeyStep \/ DetailClose \/ EnterInBox \/ Resize
    \/ \E c \in Conn : Select(c)
    \/ \E q \in Query : Type(q)
    \/ \E i \in 1..MaxHistory : PickEntry(i)
    \/ \E m \in inflight : Serve(m) \/ DeliverError(m) \/ Deliver(m)
    \/ \E t \in Text : TypeInBox(t)
    \/ \E el \in Element : Focus(el)

\* handleQuery writes an answer whatever happens, and a fetch ends.
Fairness ==
    /\ WF_vars(\E m \in inflight : Serve(m))
    /\ WF_vars(\E m \in inflight : Deliver(m) \/ DeliverError(m))

Spec == Init /\ [][Next]_vars /\ Fairness

----------------------------------------------------------------------------
(* What should hold of it                                                  *)

Entries == [conn : Conn \union {Blank}, query : Query, rows : Nat]

TypeOK ==
    /\ options \in {Conn, {}} /\ conn \in Conn \union {Blank} /\ text \in Query
    /\ focus \in Element /\ loading \in BOOLEAN
    /\ inflight \subseteq [request : Request, reply : {"pending", "answer", "error"}]
    /\ newest \in Request \union {None} /\ result \in Answer \union {None}
    /\ curRow \in Nat /\ curCol \in Nat
    /\ panel \in [of : Answer, row : Nat, col : Nat] \union {None}
    /\ searching \in BOOLEAN /\ asked \in BOOLEAN
    /\ box \in Text /\ searchQuery \in Text /\ searchIdx \in Int
    /\ history \in Seq(Entries) /\ Len(history) <= MaxHistory
    /\ stored \in Seq(Entries) /\ Len(stored) <= MaxHistory

\* Whatever keys were typed while the query ran, after the answer has come the
\* cursor is on a cell of the rows that are shown (app.js:81, 203-246).
CursorInGrid ==
    /\ curRow < NumRows \/ curRow = 0
    /\ curCol < NumCols \/ curCol = 0

\* The matches n and N visit are those of the search text in the rows shown,
\* and the index is one of the list's (app.js:82, 276-280, 313-326).
MatchesCurrent ==
    matches # {} =>
      /\ result # None
      /\ matches = Hits[result][searchQuery]
      /\ searchIdx \in 0..(Cardinality(matches) - 1)

\* The detail panel never shows a cell of rows that are gone, although it was
\* opened while their successor was in flight (app.js:83, 355-372).
PanelOfResult ==
    panel # None =>
      panel.of = result /\ panel.row < NumRows /\ panel.col < NumCols

\* The panel shows the cell the cursor is on.
PanelAtCursor == panel # None => panel = Cell

\* The rows on the screen are those the keys work on (app.js:78-87, 141-184).
DrawnIsResult == drawn.header = result /\ drawn.body = result

\* The columns marked in the header are the matches of a column search.
MarksAreMatches == drawn.marks = MarksOf(matches)

\* An answer that replaces the rows answers the query that was sent last, by the
\* connection selected then, and the newest history entry says so: not the
\* selection or the text of the moment it arrives (app.js:62, 69, 85).
NewestShown ==
    [][\A m \in inflight :
         m.reply = "answer" /\ m \notin inflight' /\ newest' # None =>
           /\ result' = Served(newest)
           /\ history'[1].conn = newest.conn /\ history'[1].query = newest.query]_vars

\* The newest entry of the history and the rows shown belong together.
HistoryOfResult ==
    result # None =>
      /\ history # <<>>
      /\ Served(history[1]) = result
      /\ history[1].rows = NumRows

\* Enter ends the search prompt.
EnterSearches == asked => ~ searching

\* A query in flight ends, with an answer or an error, and the page takes the
\* next one (app.js:90-91).
EveryRunEnds == loading ~> ~ loading
=============================================================================
