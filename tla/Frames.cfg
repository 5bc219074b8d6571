CONSTANTS
  Inputs <- MCInputs
  Documents <- MCDocuments
  MaxInput = 7
  Room = 13
  MaxFrame = 4
  ScanLimit = 6
  MaxFrames = 4
SPECIFICATION Spec
INVARIANTS TypeOK FramesAreDocuments WrittenIsRead
PROPERTY ReadsEnd
CHECK_DEADLOCK FALSE
