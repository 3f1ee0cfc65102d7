-------------------------------- MODULE Tui --------------------------------
(***************************************************************************)
(* The interactive result table (src/render/tui.go): one model, changed by *)
(* one handler per key, and a view that indexes its rows and columns with  *)
(* the cursor, the scroll offsets and the expanded column.  Text is left   *)
(* out; what a cell's text decides (its width, its height when expanded,   *)
(* whether a search finds it) is given by the constants.                   *)
(*                                                                         *)
(* Operators marked "Wrong" are variants with a bug; README.md says which  *)
(* property finds each of them.                                            *)
(***************************************************************************)
EXTENDS Integers, Sequences, FiniteSets, FiniteSetsExt

CONSTANTS
    NumRows,      \* rows of the result
    Source,       \* the names of its columns, in order
    WantedLists,  \* values of the -cols flag, <<>> when it is not given
    Width,        \* natural width of each source column: its longest text
    CellLen,      \* length of the text of each cell <<row, source column>>
    JsonLines,    \* lines of the pretty-printed cell, 0 when it is not JSON
    Text,         \* what can stand after `/`
    NoText,       \* the empty search
    Hits,         \* cells, and headers <<-1, column>>, each text is found in
    Widths, Heights, \* terminal sizes, however small
    Far              \* bound: how far page keys are followed outside the table

ASSUME NumRowsAssumption == NumRows \in Nat
ASSUME SourceAssumption == Source # <<>> /\ Source \in Seq(Range(Source))
                           /\ Width \in [1..Len(Source) -> Nat]
ASSUME CellAssumption == /\ CellLen \in [(0..(NumRows - 1)) \X (1..Len(Source)) -> Nat]
                         /\ JsonLines \in [(0..(NumRows - 1)) \X (1..Len(Source)) -> Nat]
ASSUME SizeAssumption == Widths \subseteq Nat /\ Heights \subseteq Nat
\* Inside the table every page key is followed.
ASSUME FarAssumption == Far \in Nat /\ Far >= NumRows
ASSUME TextAssumption == NoText \in Text /\ Hits[NoText] = {}

VARIABLES
    shown,                  \* the source column behind each displayed one, 0 if none
    termWidth, termHeight,
    cursorRow, cursorCol,
    scrollRow, scrollCol,
    expandedCol,            \* -1: none
    searching,              \* keys go to the search prompt
    searchQuery,
    searchMatches,          \* the matching cells
    match,                  \* the current one: searchMatches[searchIdx]
    ended,                  \* "no", "quit", "panic"
    paged                   \* history: a page key was pressed in a terminal
                            \* of fewer than three lines

size == <<termWidth, termHeight>>
place == <<cursorRow, cursorCol, scrollRow, scrollCol, expandedCol>>
search == <<searching, searchQuery, searchMatches, match>>
vars == <<shown, size, place, search, ended, paged>>

----------------------------------------------------------------------------
(* filterColumns                                                           *)

Matched(wanted) == {s \in DOMAIN Source : Source[s] \in Range(wanted)}

\* The position a wanted column goes to: that of its last mention.
DstIdx(wanted, s) == Max({i \in DOMAIN wanted : wanted[i] = Source[s]}) - 1

\* `cols[mp.dstIdx]` with as many slots as there are matching columns, and a
\* table that is left with no column at all.
FilterPanics(wanted) ==
    /\ wanted # <<>>
    /\ \/ Matched(wanted) = {}
       \/ \E s \in Matched(wanted) : DstIdx(wanted, s) >= Cardinality(Matched(wanted))

FilterColumns(wanted) ==
    IF wanted = <<>>
      THEN [c \in 0..(Len(Source) - 1) |-> c + 1]
      ELSE [c \in 0..(Cardinality(Matched(wanted)) - 1) |->
              LET from == {s \in Matched(wanted) : DstIdx(wanted, s) = c}
              IN  IF from = {} THEN 0 ELSE Max(from)]

----------------------------------------------------------------------------
(* What fits on the screen                                                 *)

Columns == DOMAIN shown
NumCols == Cardinality(Columns)
Rows == 0..(NumRows - 1)

Least(a, b) == IF a < b THEN a ELSE b
Most(a, b) == IF a > b THEN a ELSE b
CeilDiv(a, b) == (a + b - 1) \div b
Half(n) == IF n >= 0 THEN n \div 2 ELSE - ((- n) \div 2)  \* Go rounds to zero

\* Lines for data rows, less than 0 in the smallest terminals.
ViewRows == termHeight - 3

NaturalWidth(c) == IF shown[c] = 0 THEN 0 ELSE Width[shown[c]]
DisplayWidth(c, e) ==
    IF c = e THEN Least(NaturalWidth(c), termWidth \div 2)
             ELSE Most(4, Least(30, NaturalWidth(c)))

\* Lines the cursor's row takes when column e is expanded.
RowHeight(r, e) ==
    LET maxLines == Most(3, ViewRows \div 2)
        at == <<r, shown[e]>>
        w == DisplayWidth(e, e)
    IN  IF e < 0 THEN 1
        ELSE IF at \in DOMAIN CellLen
          THEN IF JsonLines[at] > 0 THEN Least(JsonLines[at], maxLines)
               ELSE IF w = 0 THEN 1
               ELSE Most(1, Least(CeilDiv(CellLen[at], w), maxLines))
          ELSE 1

\* What the first n columns from column s on take, with the lines between them.
Used(s, e) ==
    LET used[n \in 0..(NumCols - s)] ==
          IF n = 0 THEN 0
          ELSE used[n - 1] + DisplayWidth(s + n - 1, e) + (IF n > 1 THEN 3 ELSE 0)
    IN  used

\* Columns that fit next to each other from column s on, at least one.
Visible(s, e) ==
    LET used == Used(s, e)
    IN  Most(1, Cardinality({n \in 1..(NumCols - s) : used[n] <= termWidth - 2}))

\* Wrong: one line too few is scrolled.
ClampRowShort(r, e) == Most(Least(scrollRow, r), Least(r, r + RowHeight(r, e) - ViewRows - 1))

\* clampScroll: scroll as little as shows the cursor's row; scroll the columns
\* by the number of columns that fit at the old offset.  A cursor outside the
\* table is never met by the loop, which ends when the offset is the cursor.
ClampRow(r, e) ==
    LET s == Least(scrollRow, r)
        h == RowHeight(r, e)
    IN  IF r \in Rows THEN Most(s, Least(r, r + h - ViewRows)) ELSE r

\* Wrong: one column too few is scrolled.
ClampColShort(s, c, e) ==
    IF c < s THEN c
    ELSE IF c >= s + Visible(s, e) THEN Most(0, c - Visible(s, e)) ELSE s

ClampCol(s, c, e) ==
    IF c < s THEN c
    ELSE IF c >= s + Visible(s, e) THEN Most(0, c - Visible(s, e) + 1) ELSE s

CursorRowShown ==
    scrollRow <= cursorRow
      /\ (\/ cursorRow - scrollRow + RowHeight(cursorRow, expandedCol) <= ViewRows
          \/ scrollRow = cursorRow)

CursorColShown ==
    cursorCol \in scrollCol..(scrollCol + Visible(scrollCol, expandedCol) - 1)

----------------------------------------------------------------------------
Init ==
    /\ \E wanted \in WantedLists :
         IF FilterPanics(wanted)
           THEN shown = <<>> /\ ended = "panic"
           ELSE shown = FilterColumns(wanted) /\ ended = "no"
    /\ termWidth \in Widths /\ termHeight \in Heights
    /\ cursorRow = 0 /\ cursorCol = 0
    /\ scrollRow = 0 /\ scrollCol = 0
    /\ expandedCol = 0   \* the model literal does not set it
    /\ searching = FALSE /\ searchQuery = NoText
    /\ searchMatches = {} /\ match = <<0, 0>>
    /\ paged = FALSE

\* A negative row is an index out of range for clampScroll's loop when a column
\* is expanded, and for the view that follows when it has a line to draw.
Panics(r, e) == r < 0 /\ (e >= 0 \/ ViewRows > 0)

\* How every handler of a table key ends.
MoveTo(r, c, e) ==
    IF Panics(r, e)
      THEN ended' = "panic" /\ UNCHANGED <<shown, size, place>>
      ELSE /\ cursorRow' = r
           /\ cursorCol' = c
           /\ expandedCol' = e
           /\ scrollRow' = ClampRow(r, e)
           /\ scrollCol' = ClampCol(scrollCol, c, e)
           /\ UNCHANGED <<shown, size, ended>>

TableKey == ended = "no" /\ ~ searching
ToRow(r) == MoveTo(r, cursorCol, expandedCol) /\ UNCHANGED search
ToCol(c) == MoveTo(cursorRow, c, -1) /\ UNCHANGED search
Stay == ToRow(cursorRow)

Quit == TableKey /\ ended' = "quit" /\ UNCHANGED <<shown, size, place, search>>

Down == TableKey /\ ToRow(IF cursorRow < NumRows - 1 THEN cursorRow + 1 ELSE cursorRow)
\* Wrong: k goes above the first row.
UpUnguarded == TableKey /\ ToRow(cursorRow - 1)

Up == TableKey /\ ToRow(IF cursorRow > 0 THEN cursorRow - 1 ELSE cursorRow)
Top == TableKey /\ ToRow(0)
Bottom == TableKey /\ ToRow(NumRows - 1)

\* A page of less than no lines goes the other way, past the end of the table.
PageTo(r) == TableKey /\ r \in (- Far)..Far /\ ToRow(r)
HalfPageDown == PageTo(Least(cursorRow + Half(ViewRows), NumRows - 1))
HalfPageUp == PageTo(Most(cursorRow - Half(ViewRows), 0))
PageDown == PageTo(Least(cursorRow + ViewRows, NumRows - 1))
PageUp == PageTo(Most(cursorRow - ViewRows, 0))

\* Wrong: h goes left of the first column, $ one past the last.
LeftUnguarded == TableKey /\ ToCol(cursorCol - 1)
LastColPast == TableKey /\ ToCol(NumCols)

Left == TableKey /\ IF cursorCol > 0 THEN ToCol(cursorCol - 1) ELSE Stay
Right == TableKey /\ IF cursorCol < NumCols - 1 THEN ToCol(cursorCol + 1) ELSE Stay
FirstCol == TableKey /\ ToCol(0)
LastCol == TableKey /\ ToCol(NumCols - 1)

Expand ==
    /\ TableKey
    /\ MoveTo(cursorRow, cursorCol, IF expandedCol = cursorCol THEN -1 ELSE cursorCol)
    /\ UNCHANGED search

\* Enter and any key without a meaning: the status line changes, and the
\* scroll offsets when the terminal was resized before.
OtherKey == TableKey /\ Stay

\* y and Y read the cursor's row.
Yank ==
    /\ TableKey
    /\ \/ cursorRow >= 0 /\ Stay
       \/ cursorRow < 0 /\ ended' = "panic" /\ UNCHANGED <<shown, size, place, search>>

\* Enter hands the unfiltered result and the cursor's position to the hook,
\* which takes this column of it.
PreviewColumn == cursorCol + 1

Escape ==
    /\ TableKey
    /\ \/ /\ searchQuery # NoText
          /\ searchQuery' = NoText /\ searchMatches' = {}
          /\ MoveTo(cursorRow, cursorCol, expandedCol)
          /\ UNCHANGED <<searching, match>>
       \/ /\ searchQuery = NoText /\ expandedCol >= 0
          /\ MoveTo(cursorRow, cursorCol, -1)
          /\ UNCHANGED search
       \/ /\ searchQuery = NoText /\ expandedCol < 0
          /\ Quit

----------------------------------------------------------------------------
(* Search                                                                  *)

\* Row by row, and from left to right in a row.
Before(p, q) == p[1] < q[1] \/ (p[1] = q[1] /\ p[2] < q[2])
IsFirst(p, S) == p \in S /\ \A q \in S : q = p \/ Before(p, q)
IsLast(p, S) == p \in S /\ \A q \in S : q = p \/ Before(q, p)

\* The match n (forward) or N (backward) goes to, round the end.
IsNext(p) ==
    LET later == {q \in searchMatches : Before(match, q)}
    IN  IsFirst(p, IF later = {} THEN searchMatches ELSE later)
IsPrevious(p) ==
    LET earlier == {q \in searchMatches : Before(q, match)}
    IN  IsLast(p, IF earlier = {} THEN searchMatches ELSE earlier)

\* runSearch over the displayed headers or cells.
Found(text) ==
    {p \in (-1..(NumRows - 1)) \X Columns : <<p[1], shown[p[2]]>> \in Hits[text]}

\* jumpToMatch: a header match moves the column only.
MatchRow(p) == IF p[1] >= 0 THEN p[1] ELSE cursorRow

StartSearch ==
    /\ TableKey
    /\ searching' = TRUE /\ searchQuery' = NoText
    /\ MoveTo(cursorRow, cursorCol, expandedCol)
    /\ UNCHANGED <<searchMatches, match>>

\* Keys typed and erased at the prompt: any text can come about.
TypeText(text) ==
    /\ ended = "no" /\ searching
    /\ searchQuery' = text
    /\ UNCHANGED <<shown, size, place, searching, searchMatches, match, ended>>

CancelSearch ==
    /\ ended = "no" /\ searching
    /\ searching' = FALSE
    /\ UNCHANGED <<shown, size, place, searchQuery, searchMatches, match, ended>>

\* Wrong: a search keeps the index of the one before it.
RunSearchKeepsIndex ==
    /\ ended = "no" /\ searching
    /\ searching' = FALSE
    /\ searchMatches' = Found(searchQuery)
    /\ UNCHANGED <<shown, size, place, match, ended, searchQuery>>

RunSearch ==
    /\ ended = "no" /\ searching
    /\ searching' = FALSE
    /\ searchMatches' = Found(searchQuery)
    /\ \/ /\ Found(searchQuery) = {}
          /\ UNCHANGED <<shown, size, place, match, ended>>
       \/ \E p \in Found(searchQuery) :
            /\ IsFirst(p, Found(searchQuery))
            /\ match' = p
            /\ MoveTo(MatchRow(p), p[2], expandedCol)
    /\ UNCHANGED <<searchQuery>>

\* n and N clamp twice: in jumpToMatch and at the end of the key handler.
JumpTo(p) ==
    /\ match' = p
    /\ cursorRow' = MatchRow(p) /\ cursorCol' = p[2]
    /\ scrollRow' = ClampRow(MatchRow(p), expandedCol)
    /\ scrollCol' = ClampCol(ClampCol(scrollCol, p[2], expandedCol), p[2], expandedCol)
    /\ UNCHANGED <<shown, size, expandedCol, searching, searchQuery, searchMatches,
                   ended>>

NextMatch ==
    /\ TableKey
    /\ IF searchMatches = {} THEN Stay
       ELSE \E p \in searchMatches : (IsNext(p) \/ IsPrevious(p)) /\ JumpTo(p)

----------------------------------------------------------------------------
\* The new size is drawn at once, from the old offsets; they wait for the next
\* key.
Resize(w, h) ==
    /\ ended = "no"
    /\ termWidth' = w /\ termHeight' = h
    /\ ended' = IF scrollRow < 0 /\ h > 3 THEN "panic" ELSE "no"
    /\ UNCHANGED <<shown, place, search>>

LineKey == Down \/ Up \/ Top \/ Bottom
PageKey == HalfPageDown \/ HalfPageUp \/ PageDown \/ PageUp
HorizontalKey == Left \/ Right \/ FirstCol \/ LastCol
SearchInput == CancelSearch \/ RunSearch \/ \E text \in Text : TypeText(text)

OtherInput ==
    \/ LineKey \/ HorizontalKey
    \/ Expand \/ OtherKey \/ Yank \/ Escape \/ Quit
    \/ StartSearch \/ NextMatch \/ SearchInput
    \/ \E w \in Widths, h \in Heights : Resize(w, h)

Next ==
    \/ PageKey /\ paged' = (paged \/ ViewRows < 0)
    \/ OtherInput /\ UNCHANGED paged

Spec == Init /\ [][Next]_vars

----------------------------------------------------------------------------
(* What should hold of it                                                  *)

\* Displayed columns are 0, 1, ... and there is at least one of them, unless
\* the program panicked before it showed anything.
TypeOK ==
    /\ ended \in {"no", "quit", "panic"}
    /\ shown \in [Columns -> 0..Len(Source)]
    /\ termWidth \in Widths /\ termHeight \in Heights
    /\ cursorRow \in Int /\ cursorCol \in Nat
    /\ scrollRow \in Int /\ scrollCol \in Nat
    /\ expandedCol \in {-1} \union Nat
    /\ searching \in BOOLEAN /\ searchQuery \in Text
    /\ searchMatches \subseteq (-1..(NumRows - 1)) \X Columns
    /\ match \in Int \X Int
    /\ paged \in BOOLEAN

\* The view indexes rows, columns and cells with the cursor and the scroll
\* offsets after every key and every resize (tui.go:540-576, 602-673): none is
\* out of range, unless a page key was pressed in a terminal of fewer than three
\* lines (tui.go:248-255), however the terminal is resized after that.
NoPanic == ended = "panic" => paged

\* The cursor stays in the table under the same condition, in any terminal.
CursorInGrid ==
    ~ paged =>
      /\ cursorRow \in 0..Most(0, NumRows - 1) /\ cursorCol \in Columns
      /\ scrollRow \in 0..cursorRow /\ scrollCol \in Columns
      /\ expandedCol \in {-1} \union Columns

\* After any table key the cursor's row, expanded or not, is on the screen, as
\* far as the screen has lines (clampScroll's loop, tui.go:428-449).
KeyShowsCursorRow ==
    [][TableKey /\ ended' = "no" /\ size' = size => CursorRowShown']_vars

NoneWider(s, c, e) == \A i, j \in s..c : i < j => DisplayWidth(j, e) <= DisplayWidth(i, e)

\* After any table key the cursor's column is one of those drawn, in a table of
\* any columns, unless the key scrolled to the right past columns that are
\* narrower than one that follows up to the cursor (tui.go:451-460).
KeyShowsCursorCol ==
    [][ /\ TableKey /\ ended' = "no" /\ size' = size
        /\ scrollCol' > scrollCol => NoneWider(scrollCol, cursorCol', expandedCol')
        => CursorColShown' ]_vars

\* Both without their condition; neither holds (README.md).
NoPanicAtAnySize == ended # "panic"
EveryKeyShowsCursorCol ==
    [][TableKey /\ ended' = "no" /\ size' = size => CursorColShown']_vars

\* n visits every match: the current match is one of the matches, so the
\* index that n and N step never leaves them (tui.go:393-417).
MatchIsCurrent == searchMatches # {} => match \in searchMatches

\* Enter previews the cell under the cursor (tui.go:17-19, README "Enter").
PreviewShowsCell ==
    ended = "no" /\ cursorRow \in Rows => shown[cursorCol] = PreviewColumn

\* "expandedCol int // -1 = none" (tui.go:121): nothing is expanded until
\* Space is pressed.
StartsCollapsed == ended = "no" => expandedCol = -1

\* Esc clears the search, collapses the cell, or else quits (README "Esc"): it
\* does not quit while the status line counts matches that n and N visit.
EscapeClearsFirst ==
    [][Escape /\ ended' = "quit" => searchMatches = {}]_vars
=============================================================================
