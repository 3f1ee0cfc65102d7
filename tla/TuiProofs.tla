----------------------------- MODULE TuiProofs -----------------------------
(***************************************************************************)
(* For every table, text and terminal: the variables keep their types; a   *)
(* table key leaves the cursor's row on the screen, and its column too     *)
(* unless it scrolled right past columns narrower than one that follows.   *)
(* For a result with at least one row and a -cols flag whose columns       *)
(* exist: no sequence of keys, searches and resizes panics or takes the    *)
(* cursor, a scroll offset or the expanded column out of the table, as     *)
(* long as no page key is pressed in a terminal of fewer than three lines. *)
(***************************************************************************)
EXTENDS Tui, FiniteSetTheorems, WellFoundedInduction, TLAPS

GoodTable == NumRows > 0 /\ \A wanted \in WantedLists : ~ FilterPanics(wanted)

\* The displayed columns are 0, 1, ... up to some number.
ShownOK == \E n \in Nat \ {0} : Columns = 0..(n - 1)

\* Until it panics, the program has columns, and its places are among them.
PlacesInv ==
    /\ TypeOK
    /\ ended # "panic" =>
         /\ ShownOK
         /\ cursorCol \in Columns /\ scrollCol \in Columns
         /\ expandedCol \in {-1} \union Columns

\* The rows the view starts at and the cursor is in exist.
RowsOK == ended # "panic" /\ cursorRow \in Rows /\ scrollRow \in 0..cursorRow

GridInv == PlacesInv /\ (~ paged => RowsOK)

----------------------------------------------------------------------------
(* The table that filterColumns leaves                                     *)

LEMMA LeastNat ==
    ASSUME NEW S \in SUBSET Nat, S # {}
    PROVE  \E m \in S : \A k \in S : m <= k
<1>1. PICK m \in S : \A k \in S : ~ (<<k, m>> \in OpToRel(<, Nat))
  BY NatLessThanWellFounded, WFMin, Zenon
<1>2. \A k \in S : ~ (k < m)
  BY <1>1, Zenon DEF OpToRel
<1> QED
  BY <1>2

\* What holds of 0, and of i + 1 when it holds of i, holds up to n.
LEMMA Climb ==
    ASSUME NEW n \in Nat, NEW T, 0 \in T,
           \A i \in 0..(n - 1) : i \in T => i + 1 \in T
    PROVE  \A i \in 0..n : i \in T
<1> DEFINE Bad == {i \in 0..n : i \notin T}
<1> SUFFICES ASSUME Bad # {} PROVE FALSE
  OBVIOUS
<1>1. PICK m \in Bad : \A k \in Bad : m <= k
  <2>1. Bad \in SUBSET Nat
    OBVIOUS
  <2> HIDE DEF Bad
  <2> QED BY <2>1, LeastNat
<1>2. m # 0 /\ m - 1 \in 0..(n - 1)
  BY <1>1
<1>3. m - 1 \in T
  BY <1>1, <1>2
<1> QED
  BY <1>1, <1>2, <1>3

\* A bounded set of numbers has a greatest element.
LEMMA MaxInSet ==
    ASSUME NEW n \in Nat, NEW S \in SUBSET (1..n), S # {}
    PROVE  Max(S) \in S /\ \A y \in S : y <= Max(S)
<1> DEFINE Over == {n - k : k \in S}
<1>1. \A k \in S : k \in Int /\ n - k \in Nat /\ n - k \in Over
  OBVIOUS
<1>2. PICK m \in Over : \A l \in Over : m <= l
  <2>1. Over \in SUBSET Nat /\ Over # {}
    BY <1>1
  <2> HIDE DEF Over
  <2> QED BY <2>1, LeastNat
<1>3. PICK x \in S : m = n - x
  BY <1>2
<1>4. \A y \in S : x >= y
  BY <1>1, <1>2, <1>3
<1>5. Max(S) \in S /\ \A y \in S : Max(S) >= y
  BY <1>4 DEF Max
<1> QED
  BY <1>1, <1>5

LEMMA MatchedFinite ==
    ASSUME NEW wanted PROVE IsFiniteSet(Matched(wanted))
<1>1. Len(Source) \in Nat /\ DOMAIN Source = 1..Len(Source)
  BY SourceAssumption
<1>2. IsFiniteSet(1..Len(Source))
  BY <1>1, FS_Interval
<1>3. Matched(wanted) \subseteq 1..Len(Source)
  BY <1>1 DEF Matched
<1> QED
  BY <1>2, <1>3, FS_Subset

LEMMA FilterGives ==
    ASSUME NEW wanted, ~ FilterPanics(wanted)
    PROVE  \E n \in Nat \ {0} : DOMAIN FilterColumns(wanted) = 0..(n - 1)
<1>1. CASE wanted = <<>>
  <2>1. Len(Source) \in Nat \ {0}
    BY SourceAssumption
  <2> QED BY <1>1, <2>1 DEF FilterColumns
<1>2. CASE wanted # <<>>
  <2>1. Matched(wanted) # {}
    BY <1>2 DEF FilterPanics
  <2>2. Cardinality(Matched(wanted)) \in Nat \ {0}
    BY <2>1, MatchedFinite, FS_CardinalityType, FS_EmptySet
  <2> QED BY <1>2, <2>2 DEF FilterColumns
<1> QED BY <1>1, <1>2

\* A displayed column stands for a source column or, as 0, for none.
LEMMA FilterType ==
    ASSUME NEW wanted
    PROVE  FilterColumns(wanted) \in [DOMAIN FilterColumns(wanted) -> 0..Len(Source)]
<1>1. Len(Source) \in Nat /\ DOMAIN Source = 1..Len(Source)
  BY SourceAssumption
<1>2. CASE wanted = <<>>
  BY <1>1, <1>2 DEF FilterColumns
<1>3. CASE wanted # <<>>
  <2> DEFINE From(c) == {s \in Matched(wanted) : DstIdx(wanted, s) = c}
  <2>1. ASSUME NEW c, From(c) # {} PROVE Max(From(c)) \in 0..Len(Source)
    <3>1. From(c) \subseteq 1..Len(Source)
      BY <1>1 DEF Matched
    <3> HIDE DEF From
    <3>2. Max(From(c)) \in From(c)
      BY <1>1, <2>1, <3>1, MaxInSet
    <3> QED BY <1>1, <3>1, <3>2
  <2>2. FilterColumns(wanted)
          = [c \in 0..(Cardinality(Matched(wanted)) - 1) |->
               IF From(c) = {} THEN 0 ELSE Max(From(c))]
    BY <1>3 DEF FilterColumns
  <2> HIDE DEF From
  <2> QED BY <1>1, <2>1, <2>2
<1> QED BY <1>2, <1>3

----------------------------------------------------------------------------
(* The screen                                                              *)

LEMMA NumColsOK == ASSUME ShownOK PROVE NumCols \in Nat \ {0} /\ Columns = 0..(NumCols - 1)
<1>1. PICK n \in Nat \ {0} : Columns = 0..(n - 1)
  BY DEF ShownOK
<1>2. Cardinality(0..(n - 1)) = n
  BY FS_Interval
<1> QED
  BY <1>1, <1>2 DEF NumCols

\* At least one column is drawn.
LEMMA VisibleOK ==
    ASSUME ShownOK, NEW s \in Columns, NEW e PROVE Visible(s, e) \in Nat \ {0}
<1>1. NumCols - s \in Int
  BY NumColsOK
<1>2. IsFiniteSet(1..(NumCols - s))
  BY <1>1, FS_Interval
<1>3. ASSUME NEW S, S \subseteq 1..(NumCols - s) PROVE Most(1, Cardinality(S)) \in Nat \ {0}
  <2>1. Cardinality(S) \in Nat
    BY <1>2, <1>3, FS_Subset, FS_CardinalityType
  <2> QED BY <2>1 DEF Most
<1> QED
  BY <1>3 DEF Visible

LEMMA ClampColOK ==
    ASSUME ShownOK, NEW s \in Columns, NEW c \in Columns, NEW e
    PROVE  ClampCol(s, c, e) \in Columns
<1>1. Visible(s, e) \in Nat \ {0}
  BY VisibleOK
<1>2. /\ NumCols \in Nat \ {0} /\ Columns = 0..(NumCols - 1)
      /\ s \in 0..(NumCols - 1) /\ c \in 0..(NumCols - 1)
  BY NumColsOK
<1>3. CASE c < s
  BY <1>3 DEF ClampCol
<1>4. CASE ~ (c < s) /\ c >= s + Visible(s, e)
  <2>1. Most(0, c - Visible(s, e) + 1) \in 0..(NumCols - 1)
    BY <1>1, <1>2 DEF Most
  <2> QED BY <1>2, <1>4, <2>1 DEF ClampCol
<1>5. CASE ~ (c < s) /\ ~ (c >= s + Visible(s, e))
  BY <1>5 DEF ClampCol
<1> QED BY <1>3, <1>4, <1>5

LEMMA RowHeightOK ==
    ASSUME NEW r, NEW e, termWidth \in Nat, termHeight \in Nat
    PROVE  RowHeight(r, e) \in Int
<1> DEFINE maxLines == Most(3, ViewRows \div 2)
           cell == <<r, shown[e]>>
           w == DisplayWidth(e, e)
<1>1. maxLines \in Nat
  BY DEF Most, ViewRows
<1>2. CASE cell \in DOMAIN CellLen
  <2>1. cell \in (0..(NumRows - 1)) \X (1..Len(Source))
    BY <1>2, CellAssumption
  <2>2. shown[e] \in 1..Len(Source) /\ CellLen[cell] \in Nat /\ JsonLines[cell] \in Nat
    BY <2>1, CellAssumption
  <2>3. w \in Nat
    <3>1. NaturalWidth(e) \in Nat
      BY <2>2, SourceAssumption DEF NaturalWidth
    <3> QED BY <3>1 DEF DisplayWidth, Least
  <2>4. w # 0 => CeilDiv(CellLen[cell], w) \in Int
    <3> HIDE DEF w
    <3> QED BY <2>2, <2>3 DEF CeilDiv
  <2> HIDE DEF w, cell, maxLines
  <2>5. Least(JsonLines[cell], maxLines) \in Int
    BY <1>1, <2>2 DEF Least
  <2>6. w # 0 => Most(1, Least(CeilDiv(CellLen[cell], w), maxLines)) \in Int
    BY <1>1, <2>4 DEF Least, Most
  <2> QED BY <2>5, <2>6 DEF RowHeight, w, cell, maxLines
<1>3. CASE cell \notin DOMAIN CellLen
  BY <1>3 DEF RowHeight
<1> QED BY <1>2, <1>3

\* clampScroll leaves the row at the top or with enough lines for it, and never
\* above the top.
LEMMA ClampRowOK ==
    ASSUME NEW r \in Int, NEW e, scrollRow \in Int, termWidth \in Nat, termHeight \in Nat
    PROVE  /\ ClampRow(r, e) \in Int /\ ClampRow(r, e) <= r
           /\ \/ r - ClampRow(r, e) + RowHeight(r, e) <= ViewRows
              \/ ClampRow(r, e) = r
           /\ r \in Rows /\ scrollRow \in Nat => ClampRow(r, e) \in 0..r
<1>1. RowHeight(r, e) \in Int /\ ViewRows \in Int /\ (r \in Rows => r >= 0)
  BY RowHeightOK, NumRowsAssumption DEF ViewRows, Rows
<1> DEFINE h == RowHeight(r, e)
<1> HIDE DEF h
<1>2. h \in Int
  BY <1>1 DEF h
<1>3. ClampRow(r, e) = IF r \in Rows
                         THEN Most(Least(scrollRow, r), Least(r, r + h - ViewRows)) ELSE r
  BY DEF ClampRow, h
<1>4. CASE r \in Rows
  <2>1. ClampRow(r, e) = Most(Least(scrollRow, r), Least(r, r + h - ViewRows)) /\ r >= 0
    BY <1>1, <1>3, <1>4
  <2>2. /\ ClampRow(r, e) \in Int /\ ClampRow(r, e) <= r
        /\ \/ r - ClampRow(r, e) + h <= ViewRows
           \/ ClampRow(r, e) = r
        /\ scrollRow \in Nat => ClampRow(r, e) \in 0..r
    BY <1>1, <1>2, <2>1 DEF Most, Least
  <2> QED BY <2>2 DEF h
<1>5. CASE r \notin Rows
  BY <1>3, <1>5
<1> QED BY <1>4, <1>5

----------------------------------------------------------------------------
(* Types and places                                                        *)

LEMMA PlacesInit == Init => PlacesInv
<1> SUFFICES ASSUME Init PROVE PlacesInv
  OBVIOUS
<1>1. PICK wanted \in WantedLists :
        IF FilterPanics(wanted) THEN shown = <<>> /\ ended = "panic"
        ELSE shown = FilterColumns(wanted) /\ ended = "no"
  BY DEF Init
<1>2. shown \in [Columns -> 0..Len(Source)]
  <2>1. CASE shown = <<>>
    BY <2>1 DEF Columns
  <2>2. CASE shown = FilterColumns(wanted)
    BY <2>2, FilterType DEF Columns
  <2> QED BY <1>1, <2>1, <2>2
<1>3. TypeOK
  <2>1. ended \in {"no", "quit", "panic"}
    BY <1>1
  <2>2. match \in Int \X Int
    BY DEF Init
  <2>3. searching \in BOOLEAN /\ paged \in BOOLEAN
    BY Zenon DEF Init
  <2>4. /\ termWidth \in Widths /\ termHeight \in Heights
        /\ cursorRow \in Int /\ cursorCol \in Nat /\ scrollRow \in Int /\ scrollCol \in Nat
        /\ expandedCol \in {-1} \union Nat
        /\ searchQuery \in Text /\ searchMatches \subseteq (-1..(NumRows - 1)) \X Columns
    BY TextAssumption DEF Init
  <2> QED BY <1>2, <2>1, <2>2, <2>3, <2>4, Zenon DEF TypeOK
<1>4. ASSUME ended # "panic" PROVE ShownOK /\ 0 \in Columns
  <2>1. ShownOK
    BY <1>1, <1>4, FilterGives DEF ShownOK, Columns
  <2> QED BY <2>1, NumColsOK
<1> QED
  BY <1>3, <1>4 DEF Init, PlacesInv

\* A step that keeps the columns and leaves each place among them.
LEMMA PlacesKept ==
    ASSUME PlacesInv, ended # "panic", UNCHANGED shown, paged' \in BOOLEAN,
           ended' \in {"no", "quit", "panic"},
           termWidth' \in Widths, termHeight' \in Heights,
           cursorRow' \in Int, cursorCol' \in Columns,
           scrollRow' \in Int, scrollCol' \in Columns,
           expandedCol' \in {-1} \union Columns,
           searching' \in BOOLEAN, searchQuery' \in Text,
           searchMatches' \subseteq (-1..(NumRows - 1)) \X Columns,
           match' \in Int \X Int
    PROVE  PlacesInv'
<1>1. Columns' = Columns /\ ShownOK /\ ShownOK'
  BY DEF Columns, PlacesInv, ShownOK
<1>2. Columns \subseteq Nat
  BY <1>1, NumColsOK
<1>3. shown' \in [Columns' -> 0..Len(Source)]
  BY <1>1 DEF PlacesInv, TypeOK
<1>4. cursorCol' \in Nat /\ scrollCol' \in Nat /\ expandedCol' \in {-1} \union Nat
  BY <1>2
<1>5. searchMatches' \subseteq (-1..(NumRows - 1)) \X Columns'
  BY <1>1
<1>6. TypeOK'
  BY <1>3, <1>4, <1>5, Zenon DEF TypeOK
<1> QED
  BY <1>1, <1>6, Zenon DEF PlacesInv

\* The places and the search as they are.
LEMMA PlacesNow ==
    ASSUME PlacesInv, ended # "panic"
    PROVE  /\ termWidth \in Widths /\ termHeight \in Heights
           /\ cursorRow \in Int /\ cursorCol \in Columns
           /\ scrollRow \in Int /\ scrollCol \in Columns
           /\ expandedCol \in {-1} \union Columns
           /\ searching \in BOOLEAN /\ searchQuery \in Text
           /\ searchMatches \subseteq (-1..(NumRows - 1)) \X Columns
           /\ match \in Int \X Int
BY Zenon DEF PlacesInv, TypeOK

\* A handler that moves the cursor to a row, in the table or not, and a column.
LEMMA MovePlaces ==
    ASSUME PlacesInv, ended = "no", paged' \in BOOLEAN,
           NEW r \in Int, NEW c \in Columns, NEW e \in {-1} \union Columns,
           MoveTo(r, c, e),
           searching' \in BOOLEAN, searchQuery' \in Text,
           searchMatches' \subseteq (-1..(NumRows - 1)) \X Columns,
           match' \in Int \X Int
    PROVE  PlacesInv' /\ (ended' = "no" => CursorRowShown')
<1>1. CASE Panics(r, e)
  <2>1. ended' = "panic" /\ UNCHANGED <<shown, termWidth, termHeight, cursorRow,
          cursorCol, scrollRow, scrollCol, expandedCol>>
    BY <1>1 DEF MoveTo, size, place
  <2> QED BY <2>1, PlacesNow, PlacesKept
<1>2. CASE ~ Panics(r, e)
  <2>1. scrollRow \in Int /\ termWidth \in Nat /\ termHeight \in Nat
    BY SizeAssumption DEF PlacesInv, TypeOK
  <2>2. /\ cursorRow' = r /\ cursorCol' = c /\ expandedCol' = e
        /\ scrollRow' = ClampRow(r, e) /\ scrollCol' = ClampCol(scrollCol, c, e)
        /\ UNCHANGED <<shown, termWidth, termHeight, ended>>
    BY <1>2 DEF MoveTo, size
  <2>3. scrollCol' \in Columns /\ ShownOK
    BY <2>2, ClampColOK DEF PlacesInv
  <2>4. /\ scrollRow' \in Int /\ scrollRow' <= r
        /\ r - scrollRow' + RowHeight(r, e) <= ViewRows \/ scrollRow' = r
    BY <2>1, <2>2, ClampRowOK
  <2>5. PlacesInv'
    BY <2>1, <2>2, <2>3, <2>4, PlacesNow, PlacesKept
  <2>6. RowHeight(cursorRow, expandedCol)' = RowHeight(r, e) /\ ViewRows' = ViewRows
    BY <2>2 DEF RowHeight, ViewRows, DisplayWidth, NaturalWidth
  <2>7. CursorRowShown'
    BY <2>2, <2>4, <2>6 DEF CursorRowShown
  <2> QED BY <2>5, <2>7
<1> QED BY <1>1, <1>2

\* n and N.
LEMMA JumpPlaces ==
    ASSUME PlacesInv, ended = "no", UNCHANGED paged, NEW p \in searchMatches, JumpTo(p)
    PROVE  PlacesInv' /\ CursorRowShown'
<1>1. p \in (-1..(NumRows - 1)) \X Columns /\ cursorRow \in Int
  BY DEF PlacesInv, TypeOK
<1>2. MatchRow(p) \in Int /\ p[2] \in Columns /\ p \in Int \X Int
  <2>1. ShownOK
    BY Zenon DEF PlacesInv
  <2>2. Columns \subseteq Int
    BY <2>1, NumColsOK
  <2>3. p[1] \in Int /\ p[2] \in Columns
    BY <1>1, NumRowsAssumption
  <2>4. (-1..(NumRows - 1)) \X Columns \subseteq Int \X Int
    <3>1. -1..(NumRows - 1) \subseteq Int
      BY NumRowsAssumption
    <3> HIDE DEF Columns
    <3> QED BY <2>2, <3>1
  <2> QED BY <1>1, <2>3, <2>4 DEF MatchRow
<1> DEFINE r == MatchRow(p)
<1>3. /\ cursorRow' = r /\ cursorCol' = p[2] /\ match' = p
      /\ scrollRow' = ClampRow(r, expandedCol)
      /\ scrollCol' = ClampCol(ClampCol(scrollCol, p[2], expandedCol), p[2], expandedCol)
      /\ UNCHANGED <<shown, termWidth, termHeight, ended, expandedCol,
                     searching, searchQuery, searchMatches>>
  BY DEF JumpTo, size
<1> HIDE DEF r
<1>4. scrollCol' \in Columns
  BY <1>2, <1>3, ClampColOK DEF PlacesInv
<1>5. r \in Int
  BY <1>2 DEF r
<1>6. /\ scrollRow' \in Int /\ scrollRow' <= r
      /\ r - scrollRow' + RowHeight(r, expandedCol) <= ViewRows \/ scrollRow' = r
  BY <1>3, <1>5, ClampRowOK, SizeAssumption DEF PlacesInv, TypeOK
<1>7. PlacesInv'
  <2>1. paged' \in BOOLEAN
    BY Zenon DEF PlacesInv, TypeOK
  <2> QED BY <1>2, <1>3, <1>4, <1>5, <1>6, <2>1, PlacesNow, PlacesKept
<1>8. RowHeight(cursorRow, expandedCol)' = RowHeight(r, expandedCol) /\ ViewRows' = ViewRows
  BY <1>3 DEF RowHeight, ViewRows, DisplayWidth, NaturalWidth
<1>9. CursorRowShown'
  BY <1>3, <1>6, <1>8 DEF CursorRowShown
<1> QED BY <1>7, <1>9

\* What every step does for the types and for the cursor's row.
Shows == PlacesInv' /\ (ended' = "no" => CursorRowShown')
Hides == PlacesInv' /\ (ended' # "no" \/ ~ TableKey \/ size' # size)

LEMMA PlacesStep ==
    ASSUME PlacesInv, [Next]_vars
    PROVE  PlacesInv' /\ (TableKey /\ ended' = "no" /\ size' = size /\ ~ UNCHANGED vars
                            => CursorRowShown')
<1>1. CASE UNCHANGED vars
  BY <1>1 DEF vars, size, place, search, PlacesInv, TypeOK, ShownOK, Columns
<1>2. ASSUME ended = "no", Next PROVE Shows \/ Hides \/ UNCHANGED vars
  <2> DEFINE Done == Shows \/ Hides \/ UNCHANGED vars
  <2>1. /\ NumCols \in Nat \ {0} /\ Columns = 0..(NumCols - 1)
        /\ cursorCol \in Columns /\ cursorRow \in Int
        /\ NumRows \in Nat /\ ViewRows \in Int
    BY <1>2, NumColsOK, NumRowsAssumption, SizeAssumption DEF PlacesInv, TypeOK, ViewRows
  <2>a. paged' \in BOOLEAN
    <3>1. paged \in BOOLEAN
      BY Zenon DEF PlacesInv, TypeOK
    <3> QED BY <1>2, <3>1, Zenon DEF Next
  <2>2. ASSUME NEW r \in Int, ToRow(r) PROVE Done
    BY <1>2, <2>2, <2>a, MovePlaces DEF ToRow, search, PlacesInv, TypeOK, Shows
  <2>3. ASSUME NEW c \in Columns, ToCol(c) PROVE Done
    BY <1>2, <2>1, <2>3, <2>a, MovePlaces DEF ToCol, search, PlacesInv, TypeOK, Shows
  <2>4. ASSUME Stay PROVE Done
    BY <2>1, <2>2, <2>4 DEF Stay
  <2>5. CASE LineKey \/ PageKey
    <3>0. Half(ViewRows) \in Int
      BY <2>1 DEF Half
    <3>1. PICK r \in Int : ToRow(r)
      <4> USE <2>1, <3>0 DEF Least, Most
      <4>1. CASE Down BY <4>1 DEF Down
      <4>2. CASE Up BY <4>2 DEF Up
      <4>3. CASE Top BY <4>3 DEF Top
      <4>4. CASE Bottom BY <4>4 DEF Bottom
      <4>5. CASE HalfPageDown BY <4>5 DEF HalfPageDown, PageTo
      <4>6. CASE HalfPageUp BY <4>6 DEF HalfPageUp, PageTo
      <4>7. CASE PageDown BY <4>7 DEF PageDown, PageTo
      <4>8. CASE PageUp BY <4>8 DEF PageUp, PageTo
      <4> QED
        BY <2>5, <4>1, <4>2, <4>3, <4>4, <4>5, <4>6, <4>7, <4>8 DEF LineKey, PageKey
    <3> QED BY <2>2, <3>1
  <2>6. CASE HorizontalKey
    BY <2>1, <2>3, <2>4, <2>6 DEF HorizontalKey, Left, Right, FirstCol, LastCol
  <2>b. CASE Quit
    BY <1>2, <2>b, <2>a, PlacesNow, PlacesKept DEF Quit, size, place, search, Hides
  <2>7. CASE Expand \/ Escape \/ StartSearch
    <3>1. CASE Quit
      BY <2>b, <3>1
    <3>2. CASE ~ Quit
      BY <1>2, <2>1, <2>7, <2>a, <3>2, MovePlaces, TextAssumption
      DEF Expand, Escape, StartSearch, search, PlacesInv, TypeOK, Shows
    <3> QED BY <3>1, <3>2
  <2>8. CASE Yank
    <3>1. CASE Stay
      BY <2>4, <3>1
    <3>2. CASE ~ Stay
      BY <1>2, <2>8, <2>a, <3>2, PlacesNow, PlacesKept DEF Yank, size, place, search, Hides
    <3> QED BY <3>1, <3>2
  <2>9. CASE OtherKey
    BY <2>4, <2>9 DEF OtherKey
  <2>c. CASE NextMatch /\ UNCHANGED paged
    <3>1. ASSUME NEW p \in searchMatches, JumpTo(p) PROVE Done
      BY <1>2, <2>c, <3>1, JumpPlaces DEF Shows
    <3> QED
      BY <2>4, <2>c, <3>1 DEF NextMatch
  <2>10. CASE SearchInput
    <3>0. ~ TableKey
      BY <2>10 DEF SearchInput, CancelSearch, RunSearch, TypeText, TableKey
    <3>1. CASE CancelSearch \/ \E text \in Text : TypeText(text)
      BY <1>2, <2>a, <3>0, <3>1, PlacesNow, PlacesKept
      DEF CancelSearch, TypeText, size, place, Hides
    <3>2. CASE RunSearch
      <4>1. Found(searchQuery) \subseteq (-1..(NumRows - 1)) \X Columns
        BY DEF Found
      <4>2. CASE UNCHANGED <<shown, size, place, match, ended>>
        BY <1>2, <2>a, <3>0, <3>2, <4>1, <4>2, PlacesNow, PlacesKept
        DEF RunSearch, size, place, Hides
      <4>3. ASSUME NEW p \in Found(searchQuery), match' = p,
                   MoveTo(MatchRow(p), p[2], expandedCol)
            PROVE  Done
        <5>1. MatchRow(p) \in Int /\ p[2] \in Columns /\ p \in Int \X Int
          BY <2>1, <4>1 DEF MatchRow
        <5> QED
          BY <1>2, <2>a, <3>0, <3>2, <4>1, <4>3, <5>1, MovePlaces
          DEF RunSearch, PlacesInv, TypeOK, Hides
      <4> QED BY <3>2, <4>2, <4>3 DEF RunSearch
    <3> QED BY <2>10, <3>1, <3>2 DEF SearchInput
  <2>11. ASSUME NEW w \in Widths, NEW h \in Heights, Resize(w, h), UNCHANGED paged
         PROVE  Done
    <3>1. ended' \in {"no", "panic"}
      BY <2>11 DEF Resize
    <3>2. PlacesInv'
      BY <1>2, <2>11, <2>a, <3>1, PlacesNow, PlacesKept DEF Resize, place, search
    <3>3. CASE size' # size
      BY <3>2, <3>3 DEF Hides
    <3>4. CASE size' = size /\ ended' = "no"
      BY <1>2, <2>11, <3>4 DEF Resize, vars
    <3> QED BY <3>1, <3>2, <3>3, <3>4 DEF Hides
  <2> QED
    BY <1>2, <2>5, <2>6, <2>b, <2>7, <2>8, <2>9, <2>c, <2>10, <2>11 DEF Next, OtherInput
<1>3. Next => ended = "no"
  BY DEF Next, OtherInput, LineKey, PageKey, HorizontalKey, Expand, OtherKey, Yank, Escape,
         Quit, StartSearch, NextMatch, SearchInput, CancelSearch, RunSearch, TypeText, Resize,
         TableKey, Down, Up, Top, Bottom, HalfPageDown, HalfPageUp, PageDown, PageUp, PageTo,
         Left, Right, FirstCol, LastCol
<1> QED
  BY <1>1, <1>2, <1>3 DEF Shows, Hides

LEMMA PlacesInductive == Spec => []PlacesInv
BY PlacesInit, PlacesStep, PTL DEF Spec

\* Every variable keeps its type, also where the program panics.
THEOREM TableTyped == Spec => []TypeOK
<1>1. PlacesInv => TypeOK
  BY DEF PlacesInv
<1> QED
  BY <1>1, PlacesInductive, PTL

\* Whatever the heights of the rows above it and of the terminal, every table key
\* leaves the cursor's row on the screen.
THEOREM RowShown == Spec => KeyShowsCursorRow
<1>1. PlacesInv /\ [Next]_vars =>
        [TableKey /\ ended' = "no" /\ size' = size => CursorRowShown']_vars
  BY PlacesStep DEF vars
<1> QED
  BY <1>1, PlacesInductive, PTL DEF Spec, KeyShowsCursorRow

----------------------------------------------------------------------------
(* The cursor in the table                                                 *)

LEMMA RowsInit == ASSUME GoodTable PROVE Init => GridInv
<1> SUFFICES ASSUME Init PROVE GridInv
  OBVIOUS
<1>1. ended = "no" /\ cursorRow = 0 /\ scrollRow = 0
  BY DEF Init, GoodTable
<1>2. RowsOK
  BY <1>1, NumRowsAssumption DEF RowsOK, Rows, GoodTable
<1> QED
  BY <1>2, PlacesInit DEF GridInv

\* A key handler that moves the cursor inside the table.
LEMMA RowsMove ==
    ASSUME GoodTable, PlacesInv, RowsOK, ended = "no",
           NEW r \in Rows, NEW c, NEW e, MoveTo(r, c, e)
    PROVE  RowsOK'
<1>1. r \in Nat /\ scrollRow \in Nat /\ termWidth \in Nat /\ termHeight \in Nat
  BY NumRowsAssumption, SizeAssumption DEF RowsOK, Rows, PlacesInv, TypeOK
<1>2. ~ Panics(r, e)
  BY <1>1 DEF Panics
<1>3. cursorRow' = r /\ scrollRow' = ClampRow(r, e) /\ ended' = ended
  BY <1>2 DEF MoveTo
<1>4. scrollRow' \in 0..r
  BY <1>1, <1>3, ClampRowOK
<1> QED
  BY <1>3, <1>4 DEF RowsOK, Rows

\* Matches are cells or headers of the table, so jumping to one stays inside.
LEMMA MatchInRows ==
    ASSUME RowsOK, NEW p \in (-1..(NumRows - 1)) \X Columns PROVE MatchRow(p) \in Rows
<1>1. p[1] \in -1..(NumRows - 1)
  OBVIOUS
<1> QED
  BY <1>1, NumRowsAssumption DEF MatchRow, RowsOK, Rows

LEMMA GridStep == ASSUME GoodTable, GridInv, [Next]_vars PROVE GridInv'
<1>1. PlacesInv'
  BY PlacesStep DEF GridInv
<1> SUFFICES ASSUME ~ paged' PROVE RowsOK'
  BY <1>1 DEF GridInv
<1>2. ~ paged /\ RowsOK /\ PlacesInv
  <2>1. ~ paged
    BY DEF Next, vars
  <2> QED BY <2>1 DEF GridInv
<1>3. CASE UNCHANGED <<ended, cursorRow, scrollRow>> \/ Quit
  BY <1>2, <1>3 DEF RowsOK, Quit, place
<1>4. ASSUME NEW r \in Rows, ToRow(r), ended = "no" PROVE RowsOK'
  BY <1>2, <1>4, RowsMove DEF ToRow
<1>5. ASSUME NEW c, ToCol(c), ended = "no" PROVE RowsOK'
  BY <1>2, <1>5, RowsMove DEF ToCol, RowsOK
<1>6. ASSUME Stay, ended = "no" PROVE RowsOK'
  BY <1>2, <1>4, <1>6 DEF Stay, RowsOK
<1>7. /\ NumRows \in Nat \ {0} /\ ViewRows \in Int
      /\ cursorRow \in 0..(NumRows - 1)
  BY <1>2, NumRowsAssumption, SizeAssumption
  DEF GoodTable, ViewRows, RowsOK, Rows, PlacesInv, TypeOK
<1>8. CASE LineKey
  <2>1. PICK r \in Rows : ended = "no" /\ ToRow(r)
    <3> USE <1>7 DEF Rows, TableKey
    <3>1. CASE Down BY <3>1 DEF Down
    <3>2. CASE Up BY <3>2 DEF Up
    <3>3. CASE Top BY <3>3 DEF Top
    <3>4. CASE Bottom BY <3>4 DEF Bottom
    <3> QED BY <1>8, <3>1, <3>2, <3>3, <3>4 DEF LineKey
  <2> QED BY <1>4, <2>1
<1>9. CASE PageKey /\ paged' = (paged \/ ViewRows < 0)
  <2>0. ~ (ViewRows < 0)
    BY <1>9, Zenon
  <2>1. ViewRows \in Nat /\ Half(ViewRows) \in Nat
    BY <1>7, <2>0 DEF Half
  <2>2. PICK r \in Rows : ended = "no" /\ ToRow(r)
    <3> USE <1>7, <2>1 DEF Rows, TableKey, Least, Most
    <3>1. CASE HalfPageDown BY <3>1 DEF HalfPageDown, PageTo
    <3>2. CASE HalfPageUp BY <3>2 DEF HalfPageUp, PageTo
    <3>3. CASE PageDown BY <3>3 DEF PageDown, PageTo
    <3>4. CASE PageUp BY <3>4 DEF PageUp, PageTo
    <3> QED BY <1>9, <3>1, <3>2, <3>3, <3>4 DEF PageKey
  <2> QED BY <1>4, <2>2
<1>10. CASE HorizontalKey
  BY <1>5, <1>6, <1>10 DEF HorizontalKey, Left, Right, FirstCol, LastCol, TableKey
<1>11. CASE Expand \/ Escape \/ StartSearch
  <2>1. CASE Quit
    BY <1>3, <2>1
  <2>2. CASE ~ Quit
    BY <1>2, <1>11, <2>2, RowsMove DEF Expand, Escape, StartSearch, TableKey, RowsOK
  <2> QED BY <2>1, <2>2
<1>12. CASE OtherKey \/ Yank
  BY <1>6, <1>7, <1>12 DEF OtherKey, Yank, TableKey
<1>13. ASSUME NEW p \in searchMatches, JumpTo(p) PROVE RowsOK'
  <2>1. MatchRow(p) \in Rows
    BY <1>2, MatchInRows DEF PlacesInv, TypeOK
  <2>2. /\ MatchRow(p) \in Nat /\ scrollRow \in Nat
        /\ termWidth \in Nat /\ termHeight \in Nat
    BY <1>2, <1>7, <2>1, SizeAssumption DEF RowsOK, Rows, PlacesInv, TypeOK
  <2>3. /\ cursorRow' = MatchRow(p) /\ scrollRow' = ClampRow(MatchRow(p), expandedCol)
        /\ ended' = ended
    BY <1>13 DEF JumpTo
  <2>4. scrollRow' \in 0..MatchRow(p)
    BY <2>1, <2>2, <2>3, ClampRowOK
  <2> QED BY <1>2, <2>1, <2>3, <2>4 DEF RowsOK, Rows
<1>14. CASE NextMatch
  BY <1>6, <1>13, <1>14 DEF NextMatch, TableKey
<1>15. CASE SearchInput
  <2>1. CASE CancelSearch \/ \E text \in Text : TypeText(text)
    BY <1>3, <2>1 DEF CancelSearch, TypeText, place
  <2>2. CASE RunSearch
    <3>1. CASE UNCHANGED <<shown, size, place, match, ended>>
      BY <1>3, <3>1 DEF place
    <3>2. ASSUME NEW p \in Found(searchQuery), MoveTo(MatchRow(p), p[2], expandedCol)
          PROVE  RowsOK'
      <4>1. MatchRow(p) \in Rows
        BY <1>2, MatchInRows DEF Found
      <4> QED BY <1>2, <2>2, <3>2, <4>1, RowsMove DEF RunSearch
    <3> QED BY <2>2, <3>1, <3>2 DEF RunSearch
  <2> QED BY <1>15, <2>1, <2>2 DEF SearchInput
<1>16. ASSUME NEW w \in Widths, NEW h \in Heights, Resize(w, h) PROVE RowsOK'
  BY <1>2, <1>7, <1>16 DEF Resize, place, RowsOK
<1>17. CASE UNCHANGED vars
  BY <1>3, <1>17 DEF vars, place
<1> QED
  BY <1>3, <1>8, <1>9, <1>10, <1>11, <1>12, <1>14, <1>15, <1>16, <1>17 DEF Next, OtherInput

LEMMA GridInductive == ASSUME GoodTable PROVE Spec => []GridInv
<1>1. GridInv /\ [Next]_vars => GridInv'
  BY GridStep
<1> QED
  BY <1>1, RowsInit, PTL DEF Spec

\* No handler and no draw of the view panics, whatever keys are pressed and in
\* terminals of any size, before a page key in one of fewer than three lines.
THEOREM NeverPanics == ASSUME GoodTable PROVE Spec => []NoPanic
<1>1. GridInv => NoPanic
  BY DEF GridInv, RowsOK, NoPanic
<1> QED
  BY <1>1, GridInductive, PTL

\* The cursor, the scroll offsets and the expanded column index rows and columns
\* of the table, before a page key in a terminal of fewer than three lines.
THEOREM CursorStays == ASSUME GoodTable PROVE Spec => []CursorInGrid
<1>1. GridInv => CursorInGrid
  BY NumRowsAssumption
  DEF GridInv, RowsOK, PlacesInv, CursorInGrid, Rows, Most, GoodTable
<1> QED
  BY <1>1, GridInductive, PTL

----------------------------------------------------------------------------
(* The cursor's column                                                     *)

\* What visibleColRange adds up, column by column.
LEMMA UsedIs ==
    ASSUME ShownOK, NEW s \in Columns, NEW e
    PROVE  /\ Used(s, e)[0] = 0
           /\ \A i \in 1..(NumCols - s) :
                Used(s, e)[i] = Used(s, e)[i - 1] + DisplayWidth(s + i - 1, e)
                                  + (IF i > 1 THEN 3 ELSE 0)
<1> DEFINE n == NumCols - s
           Add(a, i) == a + DisplayWidth(s + i - 1, e) + (IF i > 1 THEN 3 ELSE 0)
           From(g, k) == g[0] = 0 /\ \A i \in 1..k : g[i] = Add(g[i - 1], i)
           T == {k \in 0..n : \E g : From(g, k)}
           Rec(g) == g = [k \in 0..n |-> IF k = 0 THEN 0 ELSE Add(g[k - 1], k)]
<1>0. n \in Nat
  BY NumColsOK
<1>r. Used(s, e) = CHOOSE f : Rec(f)
  BY DEF Used
<1>a. \A a, i : Add(a, i) = a + DisplayWidth(s + i - 1, e) + (IF i > 1 THEN 3 ELSE 0)
  OBVIOUS
<1> HIDE DEF n, Add
<1>1. 0 \in T
  <2> DEFINE g == [i \in 0..n |-> 0]
  <2>1. g[0] = 0 /\ 1..0 = {}
    BY <1>0
  <2> HIDE DEF g
  <2>2. From(g, 0)
    BY <2>1
  <2> QED BY <1>0, <2>2
<1>2. ASSUME NEW k \in 0..(n - 1), k \in T PROVE k + 1 \in T
  <2>1. PICK g : From(g, k)
    BY <1>2
  <2> DEFINE h == [i \in 0..n |-> IF i = k + 1 THEN Add(g[k], k + 1) ELSE g[i]]
  <2>2. h[0] = 0
    BY <1>0, <2>1
  <2>3. ASSUME NEW i \in 1..(k + 1) PROVE h[i] = Add(h[i - 1], i)
    <3>1. h[i - 1] = g[i - 1]
      BY <1>0
    <3>2. CASE i = k + 1
      BY <1>0, <3>1, <3>2
    <3>3. CASE i # k + 1
      <4>1. i \in 1..k /\ h[i] = g[i]
        BY <1>0, <3>3
      <4> QED BY <2>1, <3>1, <4>1
    <3> QED BY <3>2, <3>3
  <2> HIDE DEF h
  <2>4. From(h, k + 1)
    BY <2>2, <2>3
  <2> QED BY <1>0, <2>4
<1>3. n \in T
  <2> HIDE DEF T
  <2>1. \A i \in 0..n : i \in T
    BY <1>0, <1>1, <1>2, Climb
  <2> QED BY <1>0, <2>1
<1>4. PICK g : From(g, n)
  BY <1>3
<1> DEFINE h == [i \in 0..n |-> g[i]]
<1>5. Rec(h)
  <2>1. ASSUME NEW k \in 0..n PROVE h[k] = IF k = 0 THEN 0 ELSE Add(h[k - 1], k)
    <3>1. CASE k = 0
      BY <1>4, <3>1
    <3>2. CASE k # 0
      <4>1. k \in 1..n /\ h[k] = g[k] /\ h[k - 1] = g[k - 1]
        BY <1>0, <3>2
      <4> QED BY <1>4, <3>2, <4>1
    <3> QED BY <3>1, <3>2
  <2> QED BY <2>1
<1> HIDE DEF h
<1>6. Rec(Used(s, e))
  <2>1. \E f : Rec(f)
    BY <1>5
  <2> HIDE DEF Rec
  <2> QED BY <1>r, <2>1, Zenon
<1>7. /\ Used(s, e)[0] = 0
      /\ \A i \in 1..n : Used(s, e)[i] = Add(Used(s, e)[i - 1], i)
  BY <1>0, <1>6
<1> QED
  BY <1>7, <1>a DEF n

LEMMA WidthOK ==
    ASSUME TypeOK, NEW c \in Columns, NEW e PROVE DisplayWidth(c, e) \in Nat
<1>1. NaturalWidth(c) \in Nat
  <2>1. shown[c] \in 0..Len(Source) /\ Len(Source) \in Nat
    BY SourceAssumption DEF TypeOK
  <2>2. shown[c] # 0 => Width[shown[c]] \in Nat
    BY <2>1, SourceAssumption
  <2> QED BY <2>2 DEF NaturalWidth
<1>2. termWidth \div 2 \in Nat
  BY SizeAssumption DEF TypeOK
<1> QED
  BY <1>1, <1>2 DEF DisplayWidth, Least, Most

\* More columns take more.
LEMMA UsedGrows ==
    ASSUME ShownOK, TypeOK, NEW s \in Columns, NEW e
    PROVE  /\ \A i \in 0..(NumCols - s) : Used(s, e)[i] \in Nat
           /\ \A i \in 1..(NumCols - s) : Used(s, e)[i - 1] <= Used(s, e)[i]
<1> DEFINE n == NumCols - s
           u == Used(s, e)
           T == {i \in 0..n : u[i] \in Nat}
<1>1. n \in Nat /\ \A i \in 1..n : s + i - 1 \in Columns
  BY NumColsOK
<1>2. ASSUME NEW i \in 1..n
      PROVE  DisplayWidth(s + i - 1, e) \in Nat
  BY <1>1, WidthOK
<1>3. /\ u[0] = 0
      /\ \A i \in 1..n : u[i] = u[i - 1] + DisplayWidth(s + i - 1, e)
                                  + (IF i > 1 THEN 3 ELSE 0)
  BY UsedIs
<1> HIDE DEF n, u
<1>4. 0 \in T
  BY <1>1, <1>3
<1>5. ASSUME NEW i \in 0..(n - 1), i \in T PROVE i + 1 \in T
  <2>1. i + 1 \in 1..n /\ (i + 1) - 1 = i
    BY <1>1
  <2>2. u[i + 1] = u[i] + DisplayWidth(s + (i + 1) - 1, e) + (IF i + 1 > 1 THEN 3 ELSE 0)
    BY <1>3, <2>1
  <2>3. DisplayWidth(s + (i + 1) - 1, e) \in Nat
    BY <1>2, <2>1
  <2>4. u[i + 1] \in Nat
    BY <1>5, <2>2, <2>3
  <2> QED BY <2>1, <2>4
<1>6. \A i \in 0..n : u[i] \in Nat
  <2> HIDE DEF T
  <2>1. \A i \in 0..n : i \in T
    BY <1>1, <1>4, <1>5, Climb
  <2> QED BY <2>1 DEF T
<1>7. ASSUME NEW i \in 1..n PROVE u[i - 1] <= u[i]
  <2>1. i - 1 \in 0..n /\ i \in 0..n
    BY <1>1
  <2> QED BY <1>2, <1>3, <1>6, <2>1
<1> QED
  BY <1>6, <1>7 DEF n, u

\* The columns that fit are the first ones.
LEMMA FitIs ==
    ASSUME ShownOK, TypeOK, NEW s \in Columns, NEW e
    PROVE  \E m \in 0..(NumCols - s) :
             /\ Visible(s, e) = Most(1, m)
             /\ \A i \in 1..(NumCols - s) : i <= m <=> Used(s, e)[i] <= termWidth - 2
<1> DEFINE n == NumCols - s
           u == Used(s, e)
           Fit == {i \in 1..n : u[i] <= termWidth - 2}
<1>1. n \in Nat /\ termWidth \in Nat
  BY NumColsOK, SizeAssumption DEF TypeOK
<1>2. Visible(s, e) = Most(1, Cardinality(Fit))
  BY DEF Visible
<1>3. /\ \A i \in 0..n : u[i] \in Nat
      /\ \A i \in 1..n : u[i - 1] <= u[i]
  BY UsedGrows
<1> HIDE DEF n, u
<1>4. ASSUME NEW i \in 1..n, i > 1, i \in Fit PROVE i - 1 \in Fit
  BY <1>1, <1>3, <1>4
<1>5. CASE Fit = {}
  <2>1. Cardinality(Fit) = 0
    BY <1>5, FS_EmptySet
  <2>2. \A i \in 1..n : ~ (u[i] <= termWidth - 2)
    BY <1>5
  <2> HIDE DEF Fit
  <2> QED BY <1>1, <1>2, <2>1, <2>2 DEF n, u
<1>6. CASE Fit # {}
  <2>1. PICK m \in Fit : \A i \in Fit : i <= m
    <3>1. Fit \in SUBSET (1..n)
      OBVIOUS
    <3> HIDE DEF Fit
    <3> QED BY <1>1, <1>6, <3>1, MaxInSet
  <2>2. m \in 1..n
    BY <2>1
  <2> DEFINE T == {k \in 0..(m - 1) : m - k \in Fit}
  <2>3. 0 \in T
    BY <2>1, <2>2
  <2>4. ASSUME NEW k \in 0..((m - 1) - 1), k \in T PROVE k + 1 \in T
    <3>1. m - k \in 1..n /\ m - k > 1 /\ m - k \in Fit /\ (m - k) - 1 = m - (k + 1)
      BY <2>2, <2>4
    <3> HIDE DEF Fit
    <3>2. m - (k + 1) \in Fit
      BY <1>4, <3>1
    <3> QED BY <2>2, <3>2
  <2>5. \A k \in 0..(m - 1) : k \in T
    <3>1. m - 1 \in Nat
      BY <2>2
    <3> HIDE DEF T
    <3> QED BY <2>3, <2>4, <3>1, Climb
  <2>6. ASSUME NEW i \in 1..m PROVE i \in Fit
    <3>1. m - i \in 0..(m - 1) /\ m - (m - i) = i
      BY <2>2
    <3>2. m - i \in T
      BY <2>5, <3>1
    <3>3. m - (m - i) \in Fit
      BY <3>2
    <3> HIDE DEF Fit
    <3> QED BY <3>1, <3>3
  <2>7. Fit = 1..m
    <3>1. \A i \in Fit : i \in 1..m
      BY <2>1, <2>2
    <3> HIDE DEF Fit
    <3> QED BY <2>6, <3>1
  <2>8. Cardinality(Fit) = m
    <3>1. Cardinality(1..m) = m
      BY <1>1, <2>2, FS_Interval
    <3> HIDE DEF Fit
    <3> QED BY <2>7, <3>1
  <2>9. \A i \in 1..n : i <= m <=> u[i] <= termWidth - 2
    BY <2>2, <2>7
  <2> QED BY <1>2, <2>2, <2>8, <2>9 DEF n, u
<1> QED
  BY <1>5, <1>6

\* Further to the right at least as many columns fit, if there are as many, and
\* none of the columns up to the last of them is wider than one to its left.
LEMMA NarrowVisible ==
    ASSUME ShownOK, TypeOK, NEW e, NEW s \in Columns, NEW t \in Columns, s <= t,
           NEW c \in Columns, c = t + Visible(s, e) - 1, NoneWider(s, c, e)
    PROVE  Visible(s, e) <= Visible(t, e)
<1> DEFINE v == Visible(s, e)
           a == Used(s, e)
           b == Used(t, e)
<1>1. /\ NumCols \in Nat \ {0} /\ Columns = 0..(NumCols - 1) /\ v \in Nat \ {0}
      /\ termWidth \in Nat
  BY NumColsOK, VisibleOK, SizeAssumption DEF TypeOK
<1>2. c = t + v - 1
  OBVIOUS
<1>3. PICK m \in 0..(NumCols - s) :
        /\ v = Most(1, m)
        /\ \A i \in 1..(NumCols - s) : i <= m <=> a[i] <= termWidth - 2
  BY FitIs
<1>4. PICK k \in 0..(NumCols - t) :
        /\ Visible(t, e) = Most(1, k)
        /\ \A i \in 1..(NumCols - t) : i <= k <=> b[i] <= termWidth - 2
  BY FitIs
<1>5. /\ a[0] = 0
      /\ \A i \in 1..(NumCols - s) : a[i] = a[i - 1] + DisplayWidth(s + i - 1, e)
                                               + (IF i > 1 THEN 3 ELSE 0)
      /\ \A i \in 0..(NumCols - s) : a[i] \in Nat
  BY UsedIs, UsedGrows
<1>6. /\ b[0] = 0
      /\ \A i \in 1..(NumCols - t) : b[i] = b[i - 1] + DisplayWidth(t + i - 1, e)
                                               + (IF i > 1 THEN 3 ELSE 0)
      /\ \A i \in 0..(NumCols - t) : b[i] \in Nat
  BY UsedIs, UsedGrows
<1> HIDE DEF v, a, b
<1> DEFINE T == {i \in 0..v : b[i] <= a[i]}
<1>7. v <= NumCols - t /\ v <= NumCols - s
  BY <1>1, <1>2
<1>8. 0 \in T
  BY <1>1, <1>5, <1>6
<1>9. ASSUME NEW i \in 0..(v - 1), i \in T PROVE i + 1 \in T
  <2> DEFINE j == i + 1
  <2>1. j \in 1..(NumCols - s) /\ j \in 1..(NumCols - t) /\ j - 1 = i /\ j \in 0..v
    BY <1>1, <1>7
  <2>2. /\ a[j] = a[i] + DisplayWidth(s + j - 1, e) + (IF j > 1 THEN 3 ELSE 0)
        /\ b[j] = b[i] + DisplayWidth(t + j - 1, e) + (IF j > 1 THEN 3 ELSE 0)
    BY <1>5, <1>6, <2>1
  <2>3. a[i] \in Nat /\ b[i] \in Nat
    BY <1>1, <1>5, <1>6, <1>7
  <2>4. s + j - 1 \in Columns /\ t + j - 1 \in Columns
    BY <1>1, <2>1
  <2>5. /\ DisplayWidth(s + j - 1, e) \in Nat /\ DisplayWidth(t + j - 1, e) \in Nat
    BY <2>4, WidthOK
  <2>6. DisplayWidth(t + j - 1, e) <= DisplayWidth(s + j - 1, e)
    <3>1. CASE s = t
      BY <2>5, <3>1
    <3>2. CASE s # t
      <4>1. /\ s + j - 1 \in s..c /\ t + j - 1 \in s..c /\ s + j - 1 < t + j - 1
        BY <1>1, <1>2, <2>1, <3>2
      <4> QED BY <4>1 DEF NoneWider
    <3> QED BY <3>1, <3>2
  <2>7. b[i] <= a[i]
    BY <1>9
  <2>8. b[j] <= a[j]
    BY <2>2, <2>3, <2>5, <2>6, <2>7
  <2> QED BY <2>1, <2>8
<1>10. v \in T
  <2> HIDE DEF T
  <2>1. \A i \in 0..v : i \in T
    BY <1>1, <1>8, <1>9, Climb
  <2> QED BY <1>1, <2>1
<1>11. Most(1, k) \in Nat \ {0} /\ Most(1, k) >= k /\ k \in Int
  BY <1>1 DEF Most
<1>12. CASE m = 0
  <2>1. v = 1
    BY <1>3, <1>12 DEF Most
  <2> QED BY <1>4, <1>11, <2>1 DEF v
<1>13. CASE m # 0
  <2>1. v = m /\ v \in 1..(NumCols - s) /\ v \in 1..(NumCols - t)
    BY <1>1, <1>3, <1>7, <1>13 DEF Most
  <2>2. a[v] <= termWidth - 2
    BY <1>3, <2>1
  <2>3. b[v] <= a[v] /\ a[v] \in Nat /\ b[v] \in Nat
    BY <1>1, <1>5, <1>6, <1>7, <1>10
  <2>4. b[v] <= termWidth - 2
    BY <1>1, <2>2, <2>3
  <2>5. v <= k
    BY <1>4, <2>1, <2>4
  <2> QED BY <1>1, <1>4, <1>11, <2>5 DEF v
<1> QED
  BY <1>12, <1>13

\* Clamping the columns once shows the cursor's, and it stays when it is shown.
LEMMA ClampShows ==
    ASSUME ShownOK, TypeOK, NEW e, NEW s \in Columns, NEW c \in Columns,
           NEW t, t = ClampCol(s, c, e),
           t > s => NoneWider(s, c, e)
    PROVE  t \in Columns /\ c \in t..(t + Visible(t, e) - 1) /\ ClampCol(t, c, e) = t
<1>1. t \in Columns
  BY ClampColOK
<1>2. /\ NumCols \in Nat \ {0} /\ Columns = 0..(NumCols - 1)
      /\ Visible(s, e) \in Nat \ {0} /\ Visible(t, e) \in Nat \ {0}
  BY <1>1, NumColsOK, VisibleOK
<1>3. c \in t..(t + Visible(t, e) - 1)
  <2>1. CASE c < s
    <3>1. t = c
      BY <2>1 DEF ClampCol
    <3> QED BY <1>2, <3>1
  <2>2. CASE ~ (c < s) /\ c >= s + Visible(s, e)
    <3>1. t = c - Visible(s, e) + 1
      BY <1>2, <2>2 DEF ClampCol, Most
    <3>2. c = t + Visible(s, e) - 1 /\ t > s /\ s <= t
      BY <1>2, <2>2, <3>1
    <3>3. Visible(s, e) <= Visible(t, e)
      BY <1>1, <3>2, NarrowVisible
    <3> QED BY <1>2, <3>1, <3>3
  <2>3. CASE ~ (c < s) /\ ~ (c >= s + Visible(s, e))
    <3>1. t = s
      BY <2>3 DEF ClampCol
    <3> QED BY <1>2, <2>3, <3>1
  <2> QED BY <2>1, <2>2, <2>3
<1>4. ClampCol(t, c, e) = t
  BY <1>1, <1>2, <1>3 DEF ClampCol
<1> QED
  BY <1>1, <1>3, <1>4

\* Clamping never scrolls back what it scrolled to the right.
LEMMA ClampForward ==
    ASSUME ShownOK, NEW e, NEW s \in Columns, NEW c \in Columns,
           ClampCol(s, c, e) > s
    PROVE  ClampCol(ClampCol(s, c, e), c, e) >= ClampCol(s, c, e)
<1> DEFINE t == ClampCol(s, c, e)
<1>1. t \in Columns
  BY ClampColOK
<1>2. /\ NumCols \in Nat \ {0} /\ Columns = 0..(NumCols - 1)
      /\ Visible(s, e) \in Nat \ {0} /\ Visible(t, e) \in Nat \ {0}
  BY <1>1, NumColsOK, VisibleOK
<1>3. t <= c
  BY <1>2 DEF ClampCol, Most
<1> HIDE DEF t
<1>4. t \in Int /\ c \in Int
  BY <1>1, <1>2
<1>5. ClampCol(t, c, e) >= t
  BY <1>2, <1>3, <1>4 DEF ClampCol, Most
<1> QED
  BY <1>5 DEF t

\* How a table key that does not end the program moves the columns.
LEMMA ColMoves ==
    ASSUME [Next]_vars, TableKey, ended' = "no", size' = size, ~ UNCHANGED vars
    PROVE  /\ UNCHANGED shown
           /\ LET s == ClampCol(scrollCol, cursorCol', expandedCol')
              IN  scrollCol' \in {s, ClampCol(s, cursorCol', expandedCol')}
<1>1. ASSUME NEW r, NEW c, NEW e, MoveTo(r, c, e)
      PROVE  /\ UNCHANGED shown
             /\ scrollCol' = ClampCol(scrollCol, cursorCol', expandedCol')
  <2>1. ended' # "panic"
    OBVIOUS
  <2> QED BY <1>1, <2>1 DEF MoveTo
<1>2. ASSUME NEW p, JumpTo(p)
      PROVE  /\ UNCHANGED shown
             /\ LET s == ClampCol(scrollCol, cursorCol', expandedCol')
                IN  scrollCol' = ClampCol(s, cursorCol', expandedCol')
  BY <1>2 DEF JumpTo
<1>3. ~ Quit
  BY DEF Quit
<1>4. ~ SearchInput
  BY DEF SearchInput, CancelSearch, RunSearch, TypeText, TableKey
<1>5. \A w \in Widths, h \in Heights : ~ (Resize(w, h) /\ UNCHANGED paged)
  BY DEF Resize, size, place, search, vars, TableKey
<1>6. Next
  OBVIOUS
<1>7. \/ \E r, c, e : MoveTo(r, c, e)
      \/ \E p : JumpTo(p)
  <2>1. CASE LineKey \/ PageKey
    BY <2>1 DEF LineKey, PageKey, ToRow, Down, Up, Top, Bottom, HalfPageDown, HalfPageUp,
       PageDown, PageUp, PageTo
  <2>2. CASE HorizontalKey
    BY <2>2 DEF HorizontalKey, Left, Right, FirstCol, LastCol, Stay, ToRow, ToCol
  <2>3. CASE Expand \/ OtherKey \/ Yank \/ StartSearch
    BY <2>3 DEF Expand, OtherKey, Yank, StartSearch, Stay, ToRow
  <2>4. CASE Escape
    BY <1>3, <2>4 DEF Escape
  <2>5. CASE NextMatch
    BY <2>5 DEF NextMatch, Stay, ToRow
  <2> QED BY <1>3, <1>4, <1>5, <1>6, <2>1, <2>2, <2>3, <2>4, <2>5 DEF Next, OtherInput
<1> QED
  BY <1>1, <1>2, <1>7

\* After any table key the cursor's column is drawn, in any table, unless the key
\* scrolled right past columns narrower than one that follows (tui.go:451-460).
THEOREM ColumnShown == Spec => KeyShowsCursorCol
<1>1. ASSUME PlacesInv, [Next]_vars, TableKey, ended' = "no", size' = size,
             ~ UNCHANGED vars,
             scrollCol' > scrollCol => NoneWider(scrollCol, cursorCol', expandedCol')
      PROVE  CursorColShown'
  <2>1. PlacesInv' /\ ShownOK /\ scrollCol \in Columns /\ TypeOK
    <3>1. ended # "panic"
      BY <1>1 DEF TableKey
    <3> QED BY <1>1, <3>1, PlacesStep DEF PlacesInv
  <2> DEFINE e == expandedCol'
             c == cursorCol'
             o == scrollCol
             s == ClampCol(o, c, e)
             t == scrollCol'
  <2>2. shown' = shown /\ termWidth' = termWidth /\ t \in {s, ClampCol(s, c, e)}
    BY <1>1, ColMoves DEF size
  <2>3. Columns' = Columns /\ NumCols' = NumCols
    BY <2>2 DEF Columns, NumCols
  <2>4. c \in Columns /\ t \in Columns /\ Columns \subseteq Int
    <3>1. cursorCol' \in Columns' /\ scrollCol' \in Columns'
      BY <1>1, <2>1 DEF PlacesInv
    <3>2. Columns \subseteq Int
      BY <2>1, NumColsOK
    <3> QED BY <2>3, <3>1, <3>2
  <2>5. t > o => NoneWider(o, c, e)
    BY <1>1
  <2> HIDE DEF e, c, s, t, o
  <2>6. o \in Columns /\ ShownOK /\ TypeOK /\ s = ClampCol(o, c, e)
    BY <2>1 DEF o, s
  <2>7. s \in Columns
    BY <2>4, <2>6, ClampColOK
  <2>8. s > o => t > o
    <3>1. CASE s > o
      <4>1. ClampCol(s, c, e) >= s
        BY <2>4, <2>6, <3>1, ClampForward
      <4> QED BY <2>2, <2>4, <2>6, <2>7, <3>1, <4>1
    <3> QED BY <3>1
  <2>9. c \in s..(s + Visible(s, e) - 1) /\ ClampCol(s, c, e) = s
    BY <2>4, <2>5, <2>6, <2>8, ClampShows
  <2>10. c \in t..(t + Visible(t, e) - 1)
    BY <2>2, <2>9
  <2>11. Used(scrollCol, expandedCol)' = Used(t, e)
    BY <2>2, <2>3 DEF Used, DisplayWidth, NaturalWidth, e, t
  <2>12. Visible(scrollCol, expandedCol)' = Visible(t, e)
    BY <2>2, <2>3, <2>11 DEF Visible, t, e
  <2> QED BY <2>10, <2>12 DEF CursorColShown, c, t
<1>2. PlacesInv /\ [Next]_vars =>
        [ /\ TableKey /\ ended' = "no" /\ size' = size
          /\ scrollCol' > scrollCol => NoneWider(scrollCol, cursorCol', expandedCol')
          => CursorColShown' ]_vars
  BY <1>1 DEF vars
<1> QED
  BY <1>2, PlacesInductive, PTL DEF Spec, KeyShowsCursorCol

----------------------------------------------------------------------------
(* Search                                                                  *)

\* Every key but a search's Enter, n and N leaves match alone, and none but
\* these and Escape, which drops all matches, changes the list.
THEOREM MatchStays == Spec => []MatchIsCurrent
<1>1. Init => MatchIsCurrent
  BY DEF Init, MatchIsCurrent
<1>2. ASSUME MatchIsCurrent, [Next]_vars
      PROVE  MatchIsCurrent'
  <2> USE DEF MatchIsCurrent, search
  <2>1. CASE UNCHANGED <<searchMatches, match>>
    BY <1>2, <2>1
  <2>2. CASE LineKey \/ PageKey \/ HorizontalKey \/ Expand \/ OtherKey \/ Yank \/ Quit
    <3>1. CASE LineKey \/ PageKey
      BY <2>1, <3>1 DEF LineKey, PageKey, Down, Up, Top, Bottom, HalfPageDown, HalfPageUp,
        PageDown, PageUp, PageTo, ToRow
    <3>2. CASE HorizontalKey
      BY <2>1, <3>2 DEF HorizontalKey, Left, Right, FirstCol, LastCol, ToCol, Stay, ToRow
    <3> QED
      BY <2>1, <2>2, <3>1, <3>2 DEF Expand, OtherKey, Yank, Quit, Stay, ToRow
  <2>3. CASE Escape \/ StartSearch
    BY <1>2, <2>3 DEF Escape, Quit, StartSearch
  <2>4. CASE NextMatch
    BY <1>2, <2>4 DEF NextMatch, JumpTo, Stay, ToRow
  <2>5. CASE SearchInput
    BY <1>2, <2>5 DEF SearchInput, CancelSearch, TypeText, RunSearch, IsFirst
  <2>6. CASE \E w \in Widths, h \in Heights : Resize(w, h)
    BY <1>2, <2>6 DEF Resize
  <2>7. CASE UNCHANGED vars
    BY <1>2, <2>7 DEF vars
  <2> QED
    BY <1>2, <2>2, <2>3, <2>4, <2>5, <2>6, <2>7 DEF Next, OtherInput
<1> QED
  BY <1>1, <1>2, PTL DEF Spec
=============================================================================
