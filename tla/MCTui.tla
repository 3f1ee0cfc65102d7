------------------------------- MODULE MCTui -------------------------------
\* Small tables for Tui: a few rows and columns, terminals of a few lines.
EXTENDS Tui, TLC

CONSTANTS none, inCells, inHeaders

\* A narrow key, an enum, a long message, a JSON blob, another key.
MixedSource == <<"id", "level", "message", "props">>
MixedWidth == <<8, 5, 36, 60>>

Cells(columns) == Rows \X (1..columns)
\* The second row has a message that wraps and a pretty-printed blob.
MixedLen == [p \in Cells(4) |-> IF p = <<1, 3>> THEN 36 ELSE IF p[2] = 4 THEN 60 ELSE 5]
MixedJson == [p \in Cells(4) |-> IF p[2] = 4 THEN 4 * p[1] + 1 ELSE 0]

\* One text is found in two cells, the other in two headers (`\j`).
MCHits == [t \in Text |-> CASE t = none -> {}
                           [] t = inCells -> {<<0, 3>>, <<NumRows - 1, 1>>}
                           [] t = inHeaders -> {<<-1, 1>>, <<-1, 4>>}]

NoFilter == {<<>>}
\* As they are, and by -cols the widest first.
Reordered == {<<>>, <<"props", "id", "level">>}
ReorderedOnly == {<<"props", "id", "level">>}
Misspelt == {<<"mesage", "id">>}
=============================================================================
