CONSTANTS
    Str = {}
    Table = {glob, t1}
    Func = {f1}
    Thread = {main}
    Upval = {u1}
    UData = {}
    Weak = {}
    Globals = glob
    Main = main
    MaxStack = 3
    MaxTable = 1
    MaxDepth = 2
SPECIFICATION UvSpec
INVARIANT NoDangling
