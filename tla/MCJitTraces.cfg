CONSTANTS
    forl = forl
    funcf = funcf
    p = p
    Headers = {forl, funcf}
    ForL = {forl}
    FuncF = {funcf}
    Protos = {p}
    ProtoOf <- MCProtoOf
    MaxTrace = 3
    MaxSide = 2
    HotExit = 1
    TrySide = 1
    Done = 4
    LastExit = 1
    PenaltySlots = 1
    PenaltyMin = 1
    PenaltyMax = 1
    Noise = {0}
SPECIFICATION JitSpec
CONSTRAINT FewAfterFlush
INVARIANTS EntryLive LinksLive SideCount CompiledOnce
CHECK_DEADLOCK FALSE
