SPECIFICATION PartsSpec
CONSTANTS
    p1 = p1
    p2 = p2
    kern = kern
    Procs = {p1, p2}
    Kern = kern
    Base = 2
    Size = 8
    PageSize = 2
    Sizes = {1, 3}
    WordMod = 24
    IdMod = 8
    MaxAllocs = 4
    BITS_IN_INT = 3
    MaxBits = 8
SYMMETRY Symmetry
INVARIANTS
    ListSound
    OpenFileKeepsChunks
    RefusedOnlyWhenNoRoom
    BitMapExact
