SPECIFICATION Spec
CONSTANTS
    k1 = k1
    k2 = k2
    short = short
    l1 = l1
    l2 = l2
    Key = {k1, k2}
    Entry = {short, l1, l2}
    Pieces <- PiecesOf
    Answers <- AnswersOf
    Writer = {w, v}
    Reader = {r}
    Cleaner = {w, v}
    Inode = {i1, i2, i3}
    Faults = {"crash", "full", "io"}
    None = None
SYMMETRY Symmetry
INVARIANTS TypeOK HitIsResult ListedIsWhole
