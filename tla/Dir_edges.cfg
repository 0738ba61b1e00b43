\* Two artists at $250 and $300, searched with the bands of PRICE_BANDS.
SPECIFICATION DirectorySpec
CONSTANTS
    Artists = {a1, a2}
    Bookers = {k1}
    Texts = {t1}
    Amounts = {250, 300}
    BandEdges = {100, 250, 500, 1000, 2500}
    Unset = Unset
INVARIANTS SameCardSameAnswer
CHECK_DEADLOCK FALSE
