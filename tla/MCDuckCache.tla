---------------------------- MODULE MCDuckCache ----------------------------
\* Small instances of DuckCache for TLC.
EXTENDS DuckCache, FiniteSets, TLC

CONSTANTS c1, c2, s1, w1, w2, k1, k2, r0, r1, r2

\* Two commands; one process of each kind; a server with two request slots.
TwoCommands == (w1 :> c1) @@ (w2 :> c2)
CommandAndServer == (w1 :> c1) @@ (w2 :> s1)
TwoSlots == (w1 :> s1) @@ (w2 :> s1)

\* r0 has no columns (an answer without a table), r1 takes one INSERT, r2 two
\* and has another width.
MCBatches == [r \in Result |-> CASE r = r0 -> 0 [] r = r1 -> 1 [] r = r2 -> 2]
MCCols == [r \in Result |-> CASE r = r0 -> 0 [] r = r1 -> 1 [] r = r2 -> 2]

CommandSymmetry == Permutations(Key)
=============================================================================
