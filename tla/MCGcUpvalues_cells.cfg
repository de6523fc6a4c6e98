CONSTANTS
    Str = {}
    Table = {glob}
    Func = {f1}
    Thread = {main, c1}
    Upval = {u1}
    UData = {}
    Weak = {}
    Globals = glob
    Main = main
    MaxStack = 2
    MaxTable = 0
    MaxDepth = 2
SPECIFICATION UvSpec
INVARIANTS CapturesSafe OpenSlotAllocated
