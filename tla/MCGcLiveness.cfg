CONSTANTS
    Str = {s1}
    Table = {glob}
    Func = {f1}
    Thread = {main}
    Upval = {}
    UData = {}
    Weak = {}
    Globals = glob
    Main = main
    MaxStack = 2
    MaxTable = 0
    MaxDepth = 2
SPECIFICATION FairSpec
PROPERTY GarbageCollected
