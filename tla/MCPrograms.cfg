CONSTANTS
  Families = {"logic", "operators", "loops", "assign", "calls", "meta", "errors", "unwind", "nav", "goto", "hot"}
  Programs <- MCPrograms
  SetupRoot <- MCSetupRoot
  SetupSide <- MCSetupSide
  RecordIns <- MCRecordIns
  LastSnapshot <- MCLastSnapshot
  LoopPasses <- MCLoopPasses
  FinalPasses <- MCFinalPasses
  RunIr <- MCRunIr
  MaxStack = 60
  MAX_JSLOTS = 40
  LoopUnroll = 2
  InstUnroll = 2
  CallUnroll = 2
  MaxRecord = 60
  MaxTrace = 4
  MaxSide = 2
  HotExit = 1
  TrySide = 1
  MinStitch = 5
  BlacklistAt = 2
SPECIFICATION TracedSpec
INVARIANTS Outcome TracedOutcome FramesLinked OpenOnStack FrameCovered InFrame NoDangling
