--------------------------- MODULE WebPageProofs ---------------------------
(***************************************************************************)
(* Theorems about WebPage, for any connections, queries, answers, search   *)
(* texts and history length, and whether or not localStorage is full.      *)
(***************************************************************************)
EXTENDS WebPage, FiniteSetTheorems, SequenceTheorems, TLAPS

----------------------------------------------------------------------------
(* The list of matches                                                     *)

Places == (-1..(NumRows - 1)) \X (0..(NumCols - 1))

\* The matches before m; there are as many as m's index in searchMatches.
Earlier(ms, m) == {x \in ms : Before(x, m)}

LEMMA BeforeIsOrder ==
    ASSUME NEW ms, ms \subseteq Int \X Int
    PROVE  /\ \A m \in ms : ~ Before(m, m)
           /\ \A m, n \in ms : m = n \/ Before(m, n) \/ Before(n, m)
           /\ \A l, m, n \in ms : Before(l, m) /\ Before(m, n) => Before(l, n)
<1>1. \A m \in ms : m[1] \in Int /\ m[2] \in Int /\ m = <<m[1], m[2]>>
  OBVIOUS
<1> QED
  BY <1>1 DEF Before

\* Every index of the list has an entry.
LEMMA MatchExists ==
    ASSUME NEW ms, IsFiniteSet(ms), ms \subseteq Int \X Int,
           NEW i \in 0..(Cardinality(ms) - 1)
    PROVE  MatchAt(ms, i) \in ms
<1> DEFINE c == Cardinality(ms)
           rank == [m \in ms |-> Cardinality(Earlier(ms, m))]
<1>1. c \in Nat
  BY FS_CardinalityType
<1>2. \A m \in ms : IsFiniteSet(Earlier(ms, m)) /\ Cardinality(Earlier(ms, m)) \in Nat
  BY FS_Subset, FS_CardinalityType DEF Earlier
<1>3. \A m \in ms : Cardinality(Earlier(ms, m)) < c
  <2> SUFFICES ASSUME NEW m \in ms
               PROVE  Cardinality(Earlier(ms, m)) < c
    OBVIOUS
  <2>1. Earlier(ms, m) \in SUBSET ms /\ Earlier(ms, m) # ms
    BY BeforeIsOrder DEF Earlier
  <2>2. Cardinality(Earlier(ms, m)) <= c /\ Cardinality(Earlier(ms, m)) # c
    BY <2>1, FS_Subset
  <2> QED
    BY <1>1, <1>2, <2>2
<1>4. \A m, n \in ms : Before(m, n) =>
        Cardinality(Earlier(ms, m)) < Cardinality(Earlier(ms, n))
  <2> SUFFICES ASSUME NEW m \in ms, NEW n \in ms, Before(m, n)
               PROVE  Cardinality(Earlier(ms, m)) < Cardinality(Earlier(ms, n))
    OBVIOUS
  <2>1. Earlier(ms, m) \in SUBSET Earlier(ms, n)
    BY BeforeIsOrder DEF Earlier
  <2>2. Earlier(ms, m) # Earlier(ms, n)
    BY BeforeIsOrder DEF Earlier
  <2>3. /\ Cardinality(Earlier(ms, m)) <= Cardinality(Earlier(ms, n))
        /\ Cardinality(Earlier(ms, m)) # Cardinality(Earlier(ms, n))
    BY <1>2, <2>1, <2>2, FS_Subset
  <2> QED
    BY <1>2, <2>3
<1>5. rank \in Injection(ms, 0..(c - 1))
  <2>1. rank \in [ms -> 0..(c - 1)]
    BY <1>1, <1>2, <1>3
  <2>2. ASSUME NEW m \in ms, NEW n \in ms, m # n
        PROVE  rank[m] # rank[n]
    BY <1>2, <1>4, <2>2, BeforeIsOrder
  <2> QED
    BY <2>1, <2>2 DEF Injection, IsInjective
<1>6. IsFiniteSet(0..(c - 1)) /\ Cardinality(0..(c - 1)) = c
  BY <1>1, FS_Interval
<1> HIDE DEF rank, c
<1>7. rank \in Surjection(ms, 0..(c - 1))
  BY <1>5, <1>6, FS_Injection DEF c
<1>8. PICK m \in ms : rank[m] = i
  BY <1>7 DEF Surjection, c
<1>9. Cardinality({x \in ms : Before(x, m)}) = i
  BY <1>8 DEF rank, Earlier
<1> QED
  BY <1>9 DEF MatchAt

\* What a text hits in an answer is a finite set of its cells and names.
LEMMA HitsArePlaces ==
    ASSUME result \in Answer, NEW t \in Text
    PROVE  /\ Hits[result][t] \subseteq Places
           /\ Places \subseteq Int \X Int
           /\ NumRows \in Nat /\ NumCols \in Nat
           /\ IsFiniteSet(Hits[result][t])
<1>0. result # None
  BY WebNoneAssumption
<1>1. NumRows \in Nat /\ NumCols \in Nat
  BY <1>0, SizeAssumption DEF NumRows, NumCols
<1>2. Hits[result][t] \subseteq Places
  BY <1>0, HitsAssumption DEF Places, NumRows, NumCols
<1>3. IsFiniteSet(-1..(NumRows - 1)) /\ IsFiniteSet(0..(NumCols - 1))
  BY <1>1, FS_Interval
<1>4. IsFiniteSet(Places)
  BY <1>3, FS_Product DEF Places
<1> QED
  BY <1>1, <1>2, <1>4, FS_Subset DEF Places

\* So an index into the matches gives one of them.
LEMMA MatchIsPlace ==
    ASSUME result \in Answer, NEW t \in Text,
           NEW i \in 0..(Cardinality(Hits[result][t]) - 1)
    PROVE  MatchAt(Hits[result][t], i) \in Places
BY HitsArePlaces, MatchExists

----------------------------------------------------------------------------
(* The request in flight and the history                                   *)

Reply == {"pending", "answer", "error"}

\* At most one request is in flight, the newest one, and only while loading.
FlightInv ==
    /\ options \in {Conn, {}} /\ conn \in Conn \union {Blank} /\ text \in Query
    /\ loading \in BOOLEAN
    /\ newest \in Request \union {None}
    /\ inflight \subseteq [request : Request, reply : Reply]
    /\ \A m \in inflight : m.request = newest
    /\ \A m, n \in inflight : m = n
    /\ ~ loading => inflight = {}
    /\ result \in Answer \union {None}
    /\ history \in Seq(Entries) /\ Len(history) <= MaxHistory
    /\ stored \in Seq(Entries) /\ Len(stored) <= MaxHistory
    /\ HistoryOfResult

LEMMA ServedType ==
    ASSUME NEW r \in Request
    PROVE  Served(r) \in Answer /\ Entry(r) \in Entries
<1>1. Served(r) \in Answer
  BY ConnAssumption DEF Served, Request, Answer
<1>2. Rows[Served(r)] \in Nat
  BY <1>1, SizeAssumption
<1> QED
  BY <1>1, <1>2 DEF Entry, Entries, Request

\* A new entry comes first, and the list stays short.
LEMMA PushGives ==
    ASSUME FlightInv, NEW e \in Entries
    PROVE  /\ Push(e) \in Seq(Entries) /\ Len(Push(e)) <= MaxHistory
           /\ Push(e) # <<>> /\ Push(e)[1] = e
<1> DEFINE longer == <<e>> \o history
<1>1. /\ longer \in Seq(Entries) /\ Len(longer) = 1 + Len(history)
      /\ longer[1] = e /\ Len(history) \in Nat
  <2>1. <<e>> \in Seq(Entries) /\ Len(<<e>>) = 1 /\ history \in Seq(Entries)
    BY DEF FlightInv
  <2> QED
    BY <2>1, ConcatProperties, LenProperties
<1>2. MaxHistory \in Nat \ {0}
  BY PageAssumption
<1> HIDE DEF longer
<1>3. CASE Len(longer) > MaxHistory
  <2>1. \A i \in 1..MaxHistory : longer[i] \in Entries
    BY <1>1, <1>2, <1>3
  <2>2. LET cut == SubSeq(longer, 1, MaxHistory)
        IN  cut \in Seq(Entries) /\ Len(cut) = MaxHistory /\ cut[1] = longer[1]
    BY <1>2, <2>1, SubSeqProperties
  <2> QED
    BY <1>1, <1>2, <1>3, <2>2 DEF Push, longer
<1>4. CASE ~ (Len(longer) > MaxHistory)
  BY <1>1, <1>2, <1>4 DEF Push, longer
<1> QED
  BY <1>3, <1>4

\* The answer that arrives is that of the newest request.
LEMMA DeliverGives ==
    ASSUME FlightInv, NEW m, Deliver(m)
    PROVE  /\ FlightInv'
           /\ result' = Served(newest)
           /\ history'[1] = Entry(newest)
<1>1. /\ m \in inflight /\ m.request = newest /\ newest \in Request
      /\ inflight' = {} /\ loading' = FALSE /\ UNCHANGED <<options, conn, text, newest>>
  BY DEF Deliver, FlightInv
<1>2. /\ result' = Served(newest) /\ history' = Push(Entry(newest))
      /\ stored' \in {stored, history'}
  BY <1>1 DEF Deliver
<1>3. Served(newest) \in Answer /\ Entry(newest) \in Entries
  BY <1>1, ServedType
<1>4. /\ history' \in Seq(Entries) /\ Len(history') <= MaxHistory
      /\ history' # <<>> /\ history'[1] = Entry(newest)
  BY <1>2, <1>3, PushGives
<1>5. HistoryOfResult'
  <2>1. Served(Entry(newest)) = Served(newest)
    BY DEF Entry, Served
  <2>2. NumRows' = Rows[Served(newest)]
    BY <1>2, <1>3, WebNoneAssumption DEF NumRows
  <2>3. Entry(newest).rows = Rows[Served(newest)]
    BY DEF Entry
  <2>4. Served(history'[1]) = result' /\ history'[1].rows = NumRows'
    BY <1>2, <1>4, <2>1, <2>2, <2>3
  <2>5. HistoryOfResult' = (result' # None =>
          history' # <<>> /\ Served(history'[1]) = result' /\ history'[1].rows = NumRows')
    BY DEF HistoryOfResult, Served
  <2> QED
    BY <1>4, <2>4, <2>5
<1> QED
  BY <1>1, <1>2, <1>3, <1>4, <1>5 DEF FlightInv

LEMMA FlightInit == Init => FlightInv
<1> SUFFICES ASSUME Init PROVE FlightInv
  OBVIOUS
<1>1. <<>> \in Seq(Entries) /\ Len(<<>>) = 0
  BY EmptySeq
<1>2. conn \in Conn \union {Blank}
  BY DEF Init
<1>3. history = <<>> /\ stored = <<>> /\ result = None /\ inflight = {}
  BY DEF Init
<1>4. 0 <= MaxHistory
  BY PageAssumption
<1>5. options \in {Conn, {}} /\ text \in Query /\ loading = FALSE /\ newest = None
  BY DEF Init
<1> QED
  BY <1>1, <1>2, <1>3, <1>4, <1>5 DEF FlightInv, HistoryOfResult

LEMMA FlightStep ==
    ASSUME FlightInv, [Next]_vars
    PROVE  FlightInv'
<1>1. CASE UNCHANGED <<asking, result, past>>
  BY <1>1 DEF asking, past, FlightInv, HistoryOfResult, NumRows
<1>2. CASE UNCHANGED vars \/ KeyStep \/ DetailClose \/ EnterInBox \/ Resize
  <2>1. UNCHANGED <<asking, result, past>>
    BY <1>2 DEF vars, KeyStep, DetailClose, EnterInBox, Resize, Move, NextMatch, Jump,
         ToggleDetail, Escape, OpenSearch, RunSearch, CancelSearch
  <2> QED
    BY <1>1, <2>1
<1>3. CASE (\E t \in Text : TypeInBox(t)) \/ (\E el \in Element : Focus(el))
  BY <1>1, <1>3 DEF TypeInBox, Focus
<1>4. CASE Reload
  BY <1>4 DEF Reload, FlightInv, HistoryOfResult
<1>5. CASE Run
  <2> DEFINE r == [conn |-> conn, query |-> text]
             m == [request |-> r, reply |-> "pending"]
  <2>1. r \in Request /\ m \in [request : Request, reply : Reply] /\ m.request = r
    BY DEF FlightInv, Request, Reply
  <2>2. inflight' = {m} /\ newest' = r /\ loading' = TRUE
    BY <1>5 DEF Run, FlightInv
  <2>3. UNCHANGED <<options, conn, text, result, past>>
    BY <1>5 DEF Run
  <2> HIDE DEF r, m
  <2> QED
    BY <2>1, <2>2, <2>3 DEF FlightInv, HistoryOfResult, NumRows, past
<1>6. ASSUME NEW c \in Conn, Select(c) PROVE FlightInv'
  BY <1>6 DEF Select, FlightInv, HistoryOfResult, NumRows, past
<1>7. ASSUME NEW q \in Query, Type(q) PROVE FlightInv'
  BY <1>7 DEF Type, FlightInv, HistoryOfResult, NumRows, past
<1>8. ASSUME NEW i \in 1..MaxHistory, PickEntry(i) PROVE FlightInv'
  <2>1. history[i] \in Entries
    BY <1>8, ElementOfSeq DEF PickEntry, FlightInv
  <2>2. conn' \in Conn \union {Blank} /\ text' \in Query
    BY <1>8, <2>1 DEF PickEntry, FlightInv, Entries
  <2> QED
    BY <1>8, <2>2 DEF PickEntry, FlightInv, HistoryOfResult, NumRows, past
<1>9. ASSUME NEW m \in inflight, Serve(m) PROVE FlightInv'
  <2>1. PICK reply \in {"answer", "error"} :
          inflight' = (inflight \ {m}) \union {[m EXCEPT !.reply = reply]}
    BY <1>9 DEF Serve
  <2>2. [m EXCEPT !.reply = reply] \in [request : Request, reply : Reply]
          /\ [m EXCEPT !.reply = reply].request = newest
    BY <1>9 DEF FlightInv, Reply
  <2>3. inflight' = {[m EXCEPT !.reply = reply]} /\ loading
    BY <1>9, <2>1 DEF FlightInv
  <2>4. UNCHANGED <<options, conn, text, loading, newest, result, past>>
    BY <1>9 DEF Serve
  <2> QED
    BY <2>2, <2>3, <2>4 DEF FlightInv, HistoryOfResult, NumRows, past
<1>10. ASSUME NEW m \in inflight, DeliverError(m) PROVE FlightInv'
  <2>1. inflight' = {} /\ loading' = FALSE
    BY <1>10 DEF DeliverError, FlightInv
  <2>2. UNCHANGED <<options, conn, text, newest, result, past>>
    BY <1>10 DEF DeliverError
  <2> QED
    BY <2>1, <2>2 DEF FlightInv, HistoryOfResult, NumRows, past
<1>11. ASSUME NEW m \in inflight, Deliver(m) PROVE FlightInv'
  BY <1>11, DeliverGives
<1> QED
  BY <1>2, <1>3, <1>4, <1>5, <1>6, <1>7, <1>8, <1>9, <1>10, <1>11 DEF Next

LEMMA FlightInductive == Spec => []FlightInv
BY FlightInit, FlightStep, PTL DEF Spec

\* The newest entry of the history and the rows shown belong together.
THEOREM HistoryNamesResult == Spec => []HistoryOfResult
<1>1. FlightInv => HistoryOfResult
  BY DEF FlightInv
<1> QED
  BY <1>1, FlightInductive, PTL

\* The answer that replaces the rows is that of the last request, by the
\* connection selected when it was sent.
THEOREM AnswerOfNewest == Spec => NewestShown
<1> DEFINE Shows(m) ==
      m.reply = "answer" /\ m \notin inflight' /\ newest' # None =>
        /\ result' = Served(newest)
        /\ history'[1].conn = newest.conn /\ history'[1].query = newest.query
<1>1. ASSUME FlightInv, Next, NEW m \in inflight, m.reply = "answer", m \notin inflight'
      PROVE  newest' = None \/ Deliver(m)
  <2>1. CASE KeyStep \/ DetailClose \/ EnterInBox \/ Resize
    BY <1>1, <2>1 DEF KeyStep, DetailClose, EnterInBox, Resize, Move, NextMatch, Jump,
         ToggleDetail, Escape, OpenSearch, RunSearch, CancelSearch, asking
  <2>2. CASE Reload \/ Run
    BY <1>1, <2>2 DEF Reload, Run
  <2>3. CASE (\E c \in Conn : Select(c)) \/ (\E q \in Query : Type(q))
               \/ (\E i \in 1..MaxHistory : PickEntry(i))
    BY <1>1, <2>3 DEF Select, Type, PickEntry
  <2>4. CASE (\E t \in Text : TypeInBox(t)) \/ (\E el \in Element : Focus(el))
    BY <1>1, <2>4 DEF TypeInBox, Focus, asking
  <2>5. ASSUME NEW n \in inflight, Serve(n) \/ DeliverError(n) \/ Deliver(n)
        PROVE  Deliver(m)
    <3>1. n = m
      BY <1>1 DEF FlightInv
    <3> QED
      BY <1>1, <2>5, <3>1 DEF Serve, DeliverError
  <2> QED
    BY <1>1, <2>1, <2>2, <2>3, <2>4, <2>5 DEF Next
<1>2. ASSUME FlightInv, Next, NEW m \in inflight PROVE Shows(m)
  <2> SUFFICES ASSUME m.reply = "answer", m \notin inflight', newest' # None
               PROVE  /\ result' = Served(newest)
                      /\ history'[1].conn = newest.conn
                      /\ history'[1].query = newest.query
    OBVIOUS
  <2>1. Deliver(m)
    BY <1>1, <1>2
  <2> QED
    BY <1>2, <2>1, DeliverGives DEF Entry
<1>3. FlightInv /\ [Next]_vars => [\A m \in inflight : Shows(m)]_vars
  BY <1>2
<1> QED
  BY <1>3, FlightInductive, PTL DEF Spec, NewestShown

----------------------------------------------------------------------------
(* Cursor, panel and matches                                               *)

\* All of them are about the rows shown.
GridInv ==
    /\ result \in Answer \union {None}
    /\ curRow \in Nat /\ curCol \in Nat /\ CursorInGrid
    /\ panel \in [of : Answer, row : Nat, col : Nat] \union {None} /\ PanelOfResult
    /\ box \in Text /\ searchQuery \in Text /\ searchIdx \in Int /\ MatchesCurrent

grid == <<result, cursor, panel, search>>

\* The size of the grid; rows have at least one column.
LEMMA SizeOfGrid ==
    ASSUME result \in Answer \union {None}
    PROVE  NumRows \in Nat /\ NumCols \in Nat /\ (NumRows > 0 => NumCols > 0)
BY SizeAssumption DEF NumRows, NumCols

LEMMA ClampGives ==
    ASSUME NEW i \in Int, NEW n \in Nat \ {0}
    PROVE  Clamp(i, n) \in 0..(n - 1)
BY DEF Clamp

\* Going to a match stays in the grid.
LEMMA JumpStays ==
    ASSUME GridInv, NEW m \in Places, JumpTo(m), result' = result
    PROVE  curRow' \in Nat /\ curCol' \in Nat /\ CursorInGrid'
<1>1. NumRows \in Nat /\ NumCols \in Nat /\ NumRows' = NumRows /\ NumCols' = NumCols
  BY SizeOfGrid DEF GridInv, NumRows, NumCols
<1>2. m[1] \in -1..(NumRows - 1) /\ m[2] \in 0..(NumCols - 1)
  BY DEF Places
<1> QED
  BY <1>1, <1>2 DEF JumpTo, GridInv, CursorInGrid

\* The keys of the grid.
LEMMA KeyKeepsGrid ==
    ASSUME GridInv, KeyStep
    PROVE  GridInv' /\ result' = result
<1>1. /\ NumRows \in Nat /\ NumCols \in Nat /\ (NumRows > 0 => NumCols > 0)
  BY SizeOfGrid DEF GridInv
<1>2. ASSUME result' = result
      PROVE  NumRows' = NumRows /\ NumCols' = NumCols
  BY <1>2 DEF NumRows, NumCols
<1>3. ASSUME NEW dr \in {0, 1, -1}, NEW dc \in {0, 1, -1}, Move(dr, dc)
      PROVE  GridInv' /\ result' = result
  <2>1. result' = result /\ result \in Answer /\ NumRows > 0
        /\ UNCHANGED <<search, prompt>>
    BY <1>1, <1>3 DEF Move, OnRows, NumRows, GridInv
  <2>2. curRow' \in 0..(NumRows - 1) /\ curCol' \in 0..(NumCols - 1)
    BY <1>1, <1>3, <2>1, ClampGives DEF Move, GridInv
  <2>3. \/ panel' = None
        \/ panel' = [of |-> result, row |-> curRow', col |-> curCol']
    BY <1>3 DEF Move
  <2>4. CursorInGrid' /\ PanelOfResult'
    BY <1>1, <1>2, <2>1, <2>2, <2>3 DEF CursorInGrid, PanelOfResult
  <2>5. panel' \in [of : Answer, row : Nat, col : Nat] \union {None}
    BY <1>1, <2>1, <2>2, <2>3
  <2> QED
    BY <1>1, <2>1, <2>2, <2>4, <2>5 DEF GridInv, MatchesCurrent, search, prompt
<1>4. ASSUME NEW target \in JumpTargets, Jump(target)
      PROVE  GridInv' /\ result' = result
  <2>1. result' = result /\ NumRows > 0 /\ UNCHANGED <<panel, search, prompt>>
    BY <1>4 DEF Jump, OnRows
  <2>2. curRow \in 0..(NumRows - 1) /\ curCol \in 0..(NumCols - 1)
    BY <1>1, <2>1 DEF GridInv, CursorInGrid
  <2>3. \A d \in {PageRows, - PageRows, PageRows \div 2, -(PageRows \div 2)} :
          Clamp(curRow + d, NumRows) \in 0..(NumRows - 1)
    BY <1>1, <2>1, <2>2, ClampGives, PageAssumption
  <2>4. target[1] \in 0..(NumRows - 1) /\ target[2] \in 0..(NumCols - 1)
    BY <1>1, <2>1, <2>2, <2>3 DEF JumpTargets
  <2>5. curRow' \in 0..(NumRows - 1) /\ curCol' \in 0..(NumCols - 1)
    BY <1>4, <2>4 DEF Jump
  <2>6. CursorInGrid' /\ PanelOfResult'
    BY <1>1, <1>2, <2>1, <2>5 DEF CursorInGrid, PanelOfResult, GridInv
  <2> QED
    BY <1>1, <2>1, <2>5, <2>6 DEF GridInv, MatchesCurrent, search, prompt
<1>5. CASE ToggleDetail
  <2>1. result' = result /\ result \in Answer /\ NumRows > 0
        /\ UNCHANGED <<cursor, search, prompt>>
    BY <1>1, <1>5 DEF ToggleDetail, OnRows, NumRows, GridInv
  <2>2. curRow \in 0..(NumRows - 1) /\ curCol \in 0..(NumCols - 1)
    BY <1>1, <2>1 DEF GridInv, CursorInGrid
  <2>3. panel' \in {None, [of |-> result, row |-> curRow, col |-> curCol]}
    BY <1>5 DEF ToggleDetail, Cell
  <2>4. CursorInGrid' /\ PanelOfResult'
    BY <1>1, <1>2, <2>1, <2>2, <2>3 DEF CursorInGrid, PanelOfResult, cursor
  <2>5. panel' \in [of : Answer, row : Nat, col : Nat] \union {None}
    BY <1>1, <2>1, <2>2, <2>3
  <2> QED
    BY <1>1, <2>1, <2>2, <2>4, <2>5 DEF GridInv, MatchesCurrent, cursor, search, prompt
<1>6. CASE Escape
  BY <1>2, <1>6, TextAssumption
  DEF Escape, GridInv, MatchesCurrent, CursorInGrid, PanelOfResult, cursor, search, prompt
<1>7. CASE OpenSearch \/ CancelSearch
  BY <1>2, <1>7, TextAssumption
  DEF OpenSearch, CancelSearch, ClosePrompt, GridInv, MatchesCurrent, CursorInGrid,
      PanelOfResult, cursor, search
<1>8. CASE RunSearch
  <2>1. /\ result' = result /\ panel' = panel /\ searchQuery' = box /\ box' = Empty
        /\ matches' = FoundIn(box)
    BY <1>8 DEF RunSearch, ClosePrompt
  <2>2. CASE matches' = {}
    <3>1. UNCHANGED <<searchIdx, cursor>>
      BY <1>8, <2>2 DEF RunSearch
    <3> QED
      BY <1>2, <2>1, <2>2, <3>1, TextAssumption
      DEF GridInv, MatchesCurrent, CursorInGrid, PanelOfResult, cursor
  <2>3. CASE matches' # {}
    <3>1. /\ result \in Answer /\ result # None /\ matches' = Hits[result][box]
          /\ box \in Text
      BY <2>1, <2>3 DEF FoundIn, GridInv
    <3>2. searchIdx' = 0 /\ JumpTo(MatchAt(matches', 0))
      BY <1>8, <2>3 DEF RunSearch
    <3>3. Cardinality(matches') \in Nat \ {0}
      BY <2>3, <3>1, HitsArePlaces, FS_EmptySet, FS_CardinalityType
    <3>4. 0 \in 0..(Cardinality(Hits[result][box]) - 1)
      BY <3>1, <3>3
    <3>5. MatchAt(Hits[result][box], 0) \in Places
      BY <3>1, <3>4, MatchIsPlace
    <3>6. MatchAt(matches', 0) \in Places
      BY <3>1, <3>5
    <3>7. curRow' \in Nat /\ curCol' \in Nat /\ CursorInGrid'
      BY <2>1, <3>2, <3>6, JumpStays
    <3>8. MatchesCurrent'
      BY <2>1, <3>1, <3>2, <3>3 DEF MatchesCurrent
    <3>9. PanelOfResult'
      BY <1>2, <2>1 DEF GridInv, PanelOfResult
    <3> QED
      BY <2>1, <3>1, <3>2, <3>7, <3>8, <3>9, TextAssumption DEF GridInv
  <2> QED
    BY <2>1, <2>2, <2>3
<1>9. ASSUME NEW d \in {1, -1}, NextMatch(d)
      PROVE  GridInv' /\ result' = result
  <2> DEFINE c == Cardinality(matches)
  <2>1. /\ result' = result /\ UNCHANGED <<panel, searchQuery, matches, prompt>>
        /\ matches # {} /\ searchIdx' = (searchIdx + d + c) % c
        /\ JumpTo(MatchAt(matches, searchIdx'))
    BY <1>9 DEF NextMatch
  <2>2. result \in Answer /\ matches = Hits[result][searchQuery] /\ searchQuery \in Text
    BY <2>1 DEF GridInv, MatchesCurrent
  <2>3. c \in Nat \ {0}
    BY <2>1, <2>2, HitsArePlaces, FS_EmptySet, FS_CardinalityType
  <2>4. searchIdx' \in 0..(c - 1)
    BY <2>1, <2>3 DEF GridInv
  <2>5. MatchAt(matches, searchIdx') \in Places
    BY <2>2, <2>4, MatchIsPlace
  <2>6. curRow' \in Nat /\ curCol' \in Nat /\ CursorInGrid'
    BY <2>1, <2>5, JumpStays
  <2>7. MatchesCurrent' /\ PanelOfResult'
    BY <1>2, <2>1, <2>2, <2>4 DEF MatchesCurrent, PanelOfResult, GridInv
  <2> QED
    BY <2>1, <2>3, <2>4, <2>6, <2>7 DEF GridInv, prompt
<1> QED
  BY <1>3, <1>4, <1>5, <1>6, <1>7, <1>8, <1>9 DEF KeyStep

LEMMA GridStep ==
    ASSUME GridInv, FlightInv, [Next]_vars
    PROVE  GridInv'
<1>1. CASE UNCHANGED <<grid, box>>
  BY <1>1 DEF grid, cursor, search, GridInv, CursorInGrid, PanelOfResult, MatchesCurrent,
    NumRows, NumCols
<1>2. CASE UNCHANGED vars \/ Run \/ EnterInBox \/ Resize
  BY <1>1, <1>2 DEF vars, grid, prompt, Run, EnterInBox, Resize
<1>3. CASE (\E c \in Conn : Select(c)) \/ (\E q \in Query : Type(q))
             \/ (\E i \in 1..MaxHistory : PickEntry(i)) \/ (\E el \in Element : Focus(el))
  BY <1>1, <1>3 DEF grid, prompt, Select, Type, PickEntry, Focus
<1>4. CASE \E m \in inflight : Serve(m) \/ DeliverError(m)
  BY <1>1, <1>4 DEF grid, prompt, Serve, DeliverError
<1>5. CASE \E t \in Text : TypeInBox(t)
  BY <1>5 DEF TypeInBox, cursor, search, GridInv, CursorInGrid, PanelOfResult,
    MatchesCurrent, NumRows, NumCols
<1>6. CASE DetailClose
  BY <1>6 DEF DetailClose, cursor, search, prompt, GridInv, CursorInGrid, PanelOfResult,
    MatchesCurrent, NumRows, NumCols
<1>7. CASE KeyStep
  BY <1>7, KeyKeepsGrid
<1>8. ASSUME ResetCursor, ClosePanel, ResetSearch, box' \in Text,
             result' \in Answer \union {None}
      PROVE  GridInv'
  BY <1>8, TextAssumption DEF ResetCursor, ClosePanel, ResetSearch, GridInv,
    CursorInGrid, PanelOfResult, MatchesCurrent
<1>9. CASE Reload
  BY <1>8, <1>9, TextAssumption DEF Reload, ClosePrompt
<1>10. ASSUME NEW m \in inflight, Deliver(m) PROVE GridInv'
  <2>1. result' \in Answer
    BY <1>10, ServedType DEF Deliver, FlightInv
  <2> QED
    BY <1>8, <1>10, <2>1 DEF Deliver, prompt, GridInv
<1> QED
  BY <1>2, <1>3, <1>4, <1>5, <1>6, <1>7, <1>9, <1>10 DEF Next

LEMMA GridInductive == Spec => []GridInv
<1>1. Init => GridInv
  BY TextAssumption DEF Init, GridInv, CursorInGrid, PanelOfResult, MatchesCurrent
<1>2. FlightInv /\ GridInv /\ [Next]_vars => GridInv'
  BY GridStep
<1> QED
  BY <1>1, <1>2, FlightInductive, PTL DEF Spec

\* Whatever was typed while the query ran, the cursor is on a cell of the rows.
THEOREM CursorOnCell == Spec => []CursorInGrid
<1>1. GridInv => CursorInGrid
  BY DEF GridInv
<1> QED
  BY <1>1, GridInductive, PTL

\* An open panel shows a cell of the rows, never one of rows that are gone.
THEOREM PanelIsCurrent == Spec => []PanelOfResult
<1>1. GridInv => PanelOfResult
  BY DEF GridInv
<1> QED
  BY <1>1, GridInductive, PTL

\* n and N step through the matches of the search text in the rows.
THEOREM MatchesOfResult == Spec => []MatchesCurrent
<1>1. GridInv => MatchesCurrent
  BY DEF GridInv
<1> QED
  BY <1>1, GridInductive, PTL

----------------------------------------------------------------------------
(* Types                                                                   *)

FocusInv == focus \in Element /\ searching \in BOOLEAN /\ asked \in BOOLEAN

LEMMA FocusStep ==
    ASSUME FocusInv, [Next]_vars
    PROVE  FocusInv'
<1> USE DEF FocusInv, Element, prompt
<1>1. CASE UNCHANGED vars \/ Reload \/ Run \/ DetailClose \/ EnterInBox \/ Resize
  BY <1>1 DEF vars, Reload, ClosePrompt, Run, DetailClose, EnterInBox, Resize
<1>2. CASE KeyStep
  BY <1>2 DEF KeyStep, Move, NextMatch, Jump, ToggleDetail, Escape, OpenSearch,
    RunSearch, CancelSearch, ClosePrompt
<1>3. CASE (\E c \in Conn : Select(c)) \/ (\E q \in Query : Type(q))
             \/ (\E i \in 1..MaxHistory : PickEntry(i)) \/ (\E el \in Element : Focus(el))
  BY <1>3 DEF Select, Type, PickEntry, Focus
<1>4. CASE \E m \in inflight : Serve(m) \/ DeliverError(m) \/ Deliver(m)
  BY <1>4 DEF Serve, DeliverError, Deliver
<1>5. CASE \E t \in Text : TypeInBox(t)
  BY <1>5 DEF TypeInBox
<1> QED
  BY <1>1, <1>2, <1>3, <1>4, <1>5 DEF Next

\* The variables of WebPage are well typed; the history never outgrows its limit.
THEOREM PageTyped == Spec => []TypeOK
<1>1. Init => FocusInv
  BY DEF Init, FocusInv, Element
<1>2. FocusInv /\ [Next]_vars => FocusInv'
  BY FocusStep
<1>3. FlightInv /\ GridInv /\ FocusInv => TypeOK
  BY DEF FlightInv, GridInv, FocusInv, TypeOK, Reply
<1> QED
  BY <1>1, <1>2, <1>3, FlightInductive, GridInductive, PTL DEF Spec
=============================================================================
