SPECIFICATION Spec
CONSTANTS
    Ints <- SomeInts
    ExactTo = 16
    Word = 64
    Overflow <- MinusWord
    ExpFrom = 8
    MaxRows = 3
    MaxFrames = 2
INVARIANT HitShowsTheSame
CHECK_DEADLOCK FALSE
