----------------------------- MODULE MCWebPage -----------------------------
\* A small instance of WebPage for TLC: one connection answers with three rows
\* of two columns, the other with none.
EXTENDS WebPage, TLC

CONSTANTS c1, c2, none, inCells, inNames

MCRows == [a \in Answer |-> IF a.from = c1 THEN 3 ELSE 0]
MCCols == [a \in Answer |-> IF a.from = c1 THEN 2 ELSE 1]
MCHits ==
    [a \in Answer |-> [t \in Text |->
       CASE t = none -> {}
         [] t = inCells -> IF a.from = c1 THEN {<<0, 1>>, <<2, 0>>} ELSE {}
         [] t = inNames -> {<<-1, MCCols[a] - 1>>}]]
=============================================================================
