CONSTANTS
    Str = {}
    Table = {glob, mt}
    Func = {}
    Thread = {main}
    Upval = {}
    UData = {u1}
    Weak = {mt}
    Globals = glob
    Main = main
    MaxStack = 1
    MaxTable = 1
    MaxDepth = 1
    GcMeta = {mt}
    MaxNest = 2
SPECIFICATION MCSpec
CONSTRAINT BeforeLapse
INVARIANTS FinHeapSafe FinalizedAtMostOnce PendingAllocated NoCycleWhilePending
