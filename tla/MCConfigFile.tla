---------------------------- MODULE MCConfigFile ----------------------------
\* Small configurations for TLC.
EXTENDS ConfigFile, TLC

CONSTANTS e1, e2

\* The text README.md shows: a connection over several lines, and display.
Block(t, n, f, v, g, w) == <<Header(t, n), Attr(f, v), Attr(g, w), Close>>
Display == <<DisplayHeader, Close>>

Plain ==
    <<Attr(Current, "a")>>
      \o Block("kusto", "a", "cluster", "x", "database", "x")
      \o Block("kusto", "b", "cluster", "y", "database", "y") \o Display
\* Without current_connection and display.
Blocks == SubSeq(Plain, 2, 9)
MCDefault ==
    <<Attr(Current, "b")>>
      \o Block("kusto", "a", "cluster", "x", "database", "x")
      \o Block("kusto", "b", "cluster", "x", "database", Empty) \o Display

\* A block on one line, which HCL allows for one attribute.
OneLiner == <<OneLine("csv", "s", "path", "p")>>
              \o Block("duckdb", "d", "path", "q", "scopes", Empty) \o Display

PlainTexts == {Plain, Blocks}
AllTexts == PlainTexts \union {None}
OneLiners == {OneLiner}

SetDatabase == [name |-> "a", field |-> "database", value |-> "y"]
SetOther == [name |-> "b", field |-> "database", value |-> "x"]
SetTwo == {SetDatabase, SetOther}
SetByType == {[name |-> "kusto", field |-> "database", value |-> "z"]}
SetAbsent == {[name |-> "a", field |-> "scopes", value |-> "z"]}
SetOneLine == {[name |-> "s", field |-> "path", value |-> "z"]}

EditorSymmetry == Permutations(Editor)
=============================================================================
