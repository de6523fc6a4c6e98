CONSTANTS
    Str = {}
    Table = {glob, w1}
    Func = {}
    Thread = {main, c1}
    Upval = {}
    UData = {}
    Weak = {w1}
    Globals = glob
    Main = main
    MaxStack = 2
    MaxTable = 1
    MaxDepth = 2
SPECIFICATION Spec
INVARIANTS NoDangling WorklistsAllocated HeapInv
