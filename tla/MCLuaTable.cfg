CONSTANTS
    s = s
    o = o
    Nil = Nil
    Ints = {1, 2, 3}
    Strs = {s}
    Objs = {o}
    Vals = {v1, v2}
    Hashes <- MCHashes
    Sizes <- MCSizes
SPECIFICATION Spec
INVARIANTS IsMap RehashFits LenIsBorder EachOnce NommSound
SYMMETRY Symmetry
