CONSTANTS
    Co = {c1, c2}
    Main = main
    MaxResumeDepth = 2
    NYields = {2, 3}
    MaxFrames = 3
SPECIFICATION CoSpec
INVARIANTS StatusChain DepthExact YieldPasses
SYMMETRY Symmetry
