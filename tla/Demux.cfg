\* Each PMT changes up to twice; one unit of a stream may be lost, one flush, and
\* filters come and go twice.
SPECIFICATION Spec
CONSTANTS
  Client = {c1}
  Pats <- MCPats
  Cats <- MCCats
  Pmts <- MCPmts
  Selections <- MCSelections
  MaxChanges = 2
  Transports <- MCTransports
  MaxChunk = 3
  MaxLost = 1
  MaxFlushes = 1
  MaxPidChanges = 2
INVARIANTS ChangesAddUp InfoIsTheProgram SectionsInOrder FramesTimely
  CleanStreamArrives
PROPERTY WaitersLeave
\* The stream may end.
CHECK_DEADLOCK FALSE
