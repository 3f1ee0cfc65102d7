---------------------------- MODULE MCFileCache ----------------------------
(* A small instance of FileCache. *)
EXTENDS FileCache, TLC

CONSTANTS k1, k2, short, l1, l2

\* A short entry is one piece, a long one two.
PiecesOf == [e \in Entry |-> IF e = short THEN 1 ELSE 2]

\* One query has a short result, the other a long one: two entries of it differ
\* in their times.
AnswersOf == [k \in Key |-> IF k = k1 THEN {short} ELSE Entry \ {short}]

Symmetry ==
    Permutations(Inode) \union Permutations(Writer) \union Permutations(Entry \ {short})
=============================================================================
