CONSTANTS
    Str = {}
    Table = {glob, w}
    Func = {}
    Thread = {main}
    Upval = {}
    UData = {u1}
    Weak = {w}
    Globals = glob
    Main = main
    MaxStack = 2
    MaxTable = 1
    MaxDepth = 1
    GcMeta = {}
    MaxNest = 1
SPECIFICATION FinSpec
INVARIANT NoDangling
